---------------------------- MODULE Spec2Model ----------------------------
(***************************************************************************)
(* A model of the mock gateway (kschepkin/mock.service, backend/app):      *)
(* the request handler, the router with its path matcher and SOAP method   *)
(* discrimination, the request log writer and reader, and the WebSocket    *)
(* subscription hub.                                                       *)
(*                                                                         *)
(* Python strings are sequences of one-character strings, None is the      *)
(* empty sequence where the code only tests truthiness of a string, and 0  *)
(* where the code tests truthiness of a service id.                        *)
(***************************************************************************)
EXTENDS Naturals, Integers, Sequences, FiniteSets, TLC

VARIABLES
    services,             \* rows of the mock_services table, in table order
    active_connections,   \* ConnectionManager.active_connections (a list)
    service_connections,  \* ConnectionManager.service_connections (dict id -> list)
    ws,                   \* per websocket: endpoint/transport state and its service_id
    sendq,                \* send_personal_message tasks created by gather, in creation order
    received,             \* per websocket: the frames delivered to the peer, in order
    logfile,              \* lines of logs/requests.log, in write order
    disk_ok,              \* can the log directory be written (fixed during a run)
    now,                  \* number of clock readings made by log_request so far
    published,            \* the records handed to broadcast_log_message, in order
    snaps,                \* history: <<record key, phase, websocket>> of each fan-out snapshot
    attempts,             \* history: <<record key, phase, websocket>> of each send_text call
    send_failed,          \* history: websockets on which a send_text call raised
    req,                  \* per request: the handler's position and locals
    call,                 \* the arguments of the function or operation being applied
    ret,                  \* what that function or operation returned
    logdir                \* the files of the log directory: name -> lines

vars == <<services, active_connections, service_connections, ws, sendq, received,
          logfile, disk_ok, now, published, snaps, attempts, send_failed, req,
          call, ret, logdir>>

\* The variables the gateway's handlers and endpoints leave alone
other == <<call, ret, logdir>>

-----------------------------------------------------------------------------
(* Bounds of the model.                                                    *)

MaxRequests == 2      \* requests handled (concurrently) in the hub specification
MaxConns    == 2      \* websockets that may connect
MaxServices == 3      \* rows of the registry in the router specification

None == 0             \* a missing service id (Python None; ids start at 1)
NoStr == << >>        \* a missing or empty string
NoCall == [op |-> "none"]     \* nothing is being applied
NoRet  == [op |-> "none"]     \* nothing has returned

-----------------------------------------------------------------------------
(* Strings.                                                                *)

\* str.lower() and str.upper() follow the Unicode case mapping. The strings
\* of the model are over U+0001..U+00FF and the images of these characters
\* under upper(): GREEK CAPITAL MU (of the micro sign), its lower case, and
\* LATIN CAPITAL Y WITH DIAERESIS, which a string of this module cannot hold
\* and which is named by its code point, "U+0178". The tables pair the
\* letters that map one to one in both directions: the ASCII letters
\* first, then the Latin-1 ones
UpperCase == <<"A","B","C","D","E","F","G","H","I","J","K","L","M",
               "N","O","P","Q","R","S","T","U","V","W","X","Y","Z",
               "À","Á","Â","Ã","Ä","Å","Æ","Ç","È","É","Ê","Ë","Ì",
               "Í","Î","Ï","Ð","Ñ","Ò","Ó","Ô","Õ","Ö","Ø","Ù","Ú",
               "Û","Ü","Ý","Þ",
               "Μ","U+0178">>
LowerCase == <<"a","b","c","d","e","f","g","h","i","j","k","l","m",
               "n","o","p","q","r","s","t","u","v","w","x","y","z",
               "à","á","â","ã","ä","å","æ","ç","è","é","ê","ë","ì",
               "í","î","ï","ð","ñ","ò","ó","ô","õ","ö","ø","ù","ú",
               "û","ü","ý","þ",
               "μ","ÿ">>

\* c.lower(): one character for every character of the model
LowerChar(c) == IF \E i \in 1..Len(UpperCase) : UpperCase[i] = c
                THEN LowerCase[CHOOSE i \in 1..Len(UpperCase) : UpperCase[i] = c] ELSE c
\* c.upper(), a string: the sharp s becomes two letters, the micro sign
\* becomes the Greek capital mu
UpperChar(c) == IF c = "ß" THEN <<"S", "S">>
                ELSE IF c = "µ" THEN <<"Μ">>
                ELSE IF \E i \in 1..Len(LowerCase) : LowerCase[i] = c
                THEN <<UpperCase[CHOOSE i \in 1..Len(LowerCase) : LowerCase[i] = c]>>
                ELSE <<c>>

\* str.lower(), str.upper()
Lower(s) == [i \in 1..Len(s) |-> LowerChar(s[i])]
RECURSIVE Upper(_)
Upper(s) == IF s = << >> THEN << >> ELSE UpperChar(Head(s)) \o Upper(Tail(s))

\* s[a:b] with 0-based Python bounds already clipped to the string
Slice(s, a, b) == IF b <= a THEN << >> ELSE SubSeq(s, a + 1, b)

StartsWith(s, p) == Len(p) <= Len(s) /\ SubSeq(s, 1, Len(p)) = p
EndsWith(s, p)   == Len(p) <= Len(s) /\ SubSeq(s, Len(s) - Len(p) + 1, Len(s)) = p

\* p in s
Contains(s, p) == \E i \in 0..(Len(s) - Len(p)) : SubSeq(s, i + 1, i + Len(p)) = p

\* str.replace(old, new): the occurrences of old from left to right
RECURSIVE ReplaceAll(_, _, _)
ReplaceAll(s, old, new) ==
    IF s = << >> \/ old = << >> THEN s
    ELSE IF StartsWith(s, old) THEN new \o ReplaceAll(SubSeq(s, Len(old) + 1, Len(s)), old, new)
    ELSE <<Head(s)>> \o ReplaceAll(Tail(s), old, new)

\* str.strip(chars)
RECURSIVE LStrip(_, _)
LStrip(s, cs) == IF s # << >> /\ Head(s) \in cs THEN LStrip(Tail(s), cs) ELSE s
RECURSIVE RStrip(_, _)
RStrip(s, cs) == IF s # << >> /\ s[Len(s)] \in cs
                 THEN RStrip(SubSeq(s, 1, Len(s) - 1), cs) ELSE s
Strip(s, cs) == RStrip(LStrip(s, cs), cs)
\* str.strip() without an argument strips the characters of str.isspace():
\* the ASCII ones (tab, line feed, VT, form feed, carriage return, FS, GS,
\* RS, US, space), NEL, the no-break space and the Ogham space mark; the
\* spaces from U+2000 on cannot be written in a string of this module
WhiteSpace ==
    {" ", "\n", "\t", "\r", "\f",
     "", "", "", "", "", "", " ", " "}

\* s.split(c)[0] and s.split(c)[-1]
BeforeFirst(s, c) == IF \E i \in 1..Len(s) : s[i] = c
                     THEN SubSeq(s, 1, (CHOOSE i \in 1..Len(s) :
                              s[i] = c /\ \A j \in 1..(i - 1) : s[j] # c) - 1)
                     ELSE s
AfterLast(s, c) == IF \E i \in 1..Len(s) : s[i] = c
                   THEN SubSeq(s, (CHOOSE i \in 1..Len(s) :
                            s[i] = c /\ \A j \in (i + 1)..Len(s) : s[j] # c) + 1, Len(s))
                   ELSE s

\* re.split(r'[._-]', s): the parts between separators, empty parts included
RECURSIVE SplitOn(_, _, _)
SplitOn(s, seps, cur) ==
    IF s = << >> THEN <<cur>>
    ELSE IF Head(s) \in seps THEN <<cur>> \o SplitOn(Tail(s), seps, << >>)
    ELSE SplitOn(Tail(s), seps, Append(cur, Head(s)))

-----------------------------------------------------------------------------
(* utils/path_parser.py                                                    *)

WILDCARD == <<"{", "*", "}">>
NoMatch == [matched |-> FALSE, params |-> << >>]
Match(ps) == [matched |-> TRUE, params |-> ps]

\* The compiled pattern as a sequence of tokens: a literal character, ".*", or a
\* named group (?P<name>[^/]+); the anchors ^ and $ are part of re_match.
\* The text between the braces is pasted after "(?P<" as it stands, and the
\* name of a group ends at the first ">": what follows it in the text, and
\* the ">" that was meant to close the name, are literals the group starts
\* with (pre). re.escape leaves ">" alone and makes every character it
\* escapes a literal.
Lit(c)   == [t |-> "lit", c |-> c, name |-> << >>, pre |-> << >>]
AnyTok   == [t |-> "any", c |-> "", name |-> << >>, pre |-> << >>]
Grp(n)   == [t |-> "grp", c |-> "", name |-> BeforeFirst(n, ">"),
             pre |-> IF \E i \in 1..Len(n) : n[i] = ">"
                     THEN SubSeq(n, Len(BeforeFirst(n, ">")) + 2, Len(n)) \o <<">">>
                     ELSE << >>]

\* index of the first "}" at or after position i, 0 when there is none
NextClose(s, i) == IF \E k \in i..Len(s) : s[k] = "}"
                   THEN CHOOSE k \in i..Len(s) : s[k] = "}" /\ \A j \in i..(k - 1) : s[j] # "}"
                   ELSE 0

\* escaped.replace('\\{\\*\\}', '.*'): every other character stays a literal
RECURSIVE ReplaceWildcard(_)
ReplaceWildcard(s) ==
    IF s = << >> THEN << >>
    ELSE IF StartsWith(s, WILDCARD) THEN <<AnyTok>> \o ReplaceWildcard(SubSeq(s, 4, Len(s)))
    ELSE <<Lit(Head(s))>> \o ReplaceWildcard(Tail(s))

\* re.sub(r'\\{([^}]+)\\}', r'(?P<\1>[^/]+)', escaped)
RECURSIVE SubGroups(_)
SubGroups(s) ==
    IF s = << >> THEN << >>
    ELSE IF Head(s) = "{" /\ NextClose(s, 2) > 2
         THEN <<Grp(SubSeq(s, 2, NextClose(s, 2) - 1))>>
              \o SubGroups(SubSeq(s, NextClose(s, 2) + 1, Len(s)))
    ELSE <<Lit(Head(s))>> \o SubGroups(Tail(s))

pattern_to_regex(path_pattern) ==
    IF Contains(path_pattern, WILDCARD) THEN ReplaceWildcard(path_pattern)
    ELSE SubGroups(path_pattern)

\* Does tokens[i..] match p[j..] up to the "$" anchor?  "$" matches at the end
\* of the string and just before a final newline; "." matches no newline;
\* [^/] matches anything but "/"; a group matches its literals, then one or
\* more characters of [^/].
RECURSIVE ReMatches(_, _, _, _)
ReMatches(toks, p, i, j) ==
    IF i > Len(toks) THEN j = Len(p) + 1 \/ (j = Len(p) /\ p[j] = "\n")
    ELSE IF toks[i].t = "lit"
         THEN j <= Len(p) /\ p[j] = toks[i].c /\ ReMatches(toks, p, i + 1, j + 1)
    ELSE IF toks[i].t = "any"
         THEN \E k \in j..(Len(p) + 1) :
                 /\ \A m \in j..(k - 1) : p[m] # "\n"
                 /\ ReMatches(toks, p, i + 1, k)
    ELSE LET f == j + Len(toks[i].pre)
         IN  /\ f <= Len(p) + 1
             /\ SubSeq(p, j, f - 1) = toks[i].pre
             /\ \E k \in (f + 1)..(Len(p) + 1) :
                    /\ \A m \in f..(k - 1) : p[m] # "/"
                    /\ ReMatches(toks, p, i + 1, k)

\* match.groupdict(): each group takes the longest text that lets the rest match
RECURSIVE ReGroups(_, _, _, _)
ReGroups(toks, p, i, j) ==
    IF i > Len(toks) THEN << >>
    ELSE IF toks[i].t = "lit" THEN ReGroups(toks, p, i + 1, j + 1)
    ELSE LET f == j + Len(toks[i].pre)
             lo == IF toks[i].t = "grp" THEN f + 1 ELSE j
             bad == IF toks[i].t = "grp" THEN "/" ELSE "\n"
             ok(k) == /\ \A m \in f..(k - 1) : p[m] # bad
                      /\ ReMatches(toks, p, i + 1, k)
             k == CHOOSE k \in lo..(Len(p) + 1) :
                     ok(k) /\ \A k2 \in (k + 1)..(Len(p) + 1) : ~ok(k2)
         IN  (IF toks[i].t = "grp" THEN << <<toks[i].name, Slice(p, j - 1, k - 1)>> >>
              ELSE << >>) \o ReGroups(toks, p, i + 1, k)

re_match(toks, p) == IF ReMatches(toks, p, 1, 1) THEN Match(ReGroups(toks, p, 1, 1))
                     ELSE NoMatch

extract_parameters(path_pattern, actual_path) ==
    IF EndsWith(path_pattern, WILDCARD)
    THEN LET base_path == SubSeq(path_pattern, 1, Len(path_pattern) - 3)
         IN  IF StartsWith(actual_path, base_path)
             THEN Match(<< <<<<"*">>, Slice(actual_path, Len(base_path), Len(actual_path))>> >>)
             ELSE NoMatch
    ELSE re_match(pattern_to_regex(path_pattern), actual_path)

Digits == {"0", "1", "2", "3", "4", "5", "6", "7", "8", "9"}
AsciiLetters == {UpperCase[i] : i \in 1..26} \cup {LowerCase[i] : i \in 1..26}
\* the characters of U+0001..U+00FF that may start an identifier
\* (XID_Start and the underscore), with the images under upper()
IdStart == {UpperCase[i] : i \in 1..Len(UpperCase)} \cup {LowerCase[i] : i \in 1..Len(LowerCase)}
               \cup {"_", "ª", "µ", "º", "ß"}

\* str.isidentifier(), the test re.compile applies to a group name: a
\* character of XID_Start or "_", then characters of XID_Continue, which
\* adds the digits and the middle dot
IsIdentifier(name) ==
    /\ name # << >>
    /\ name[1] \in IdStart
    /\ \A i \in 2..Len(name) : name[i] \in IdStart \cup Digits \cup {"·"}

\* re.match compiles the pattern first: re.error for a group name that is
\* not an identifier and for a group name that is defined twice
re_compiles(toks) ==
    /\ \A i \in 1..Len(toks) : toks[i].t = "grp" => IsIdentifier(toks[i].name)
    /\ \A i, j \in 1..Len(toks) :
          (toks[i].t = "grp" /\ toks[j].t = "grp" /\ toks[i].name = toks[j].name) => i = j

Raised == [matched |-> FALSE, params |-> << >>, raised |-> TRUE]
Returned(m) == [matched |-> m.matched, params |-> m.params, raised |-> FALSE]

\* PathParser.extract_parameters with the exception re.match may raise
extract_parameters_call(path_pattern, actual_path) ==
    IF ~EndsWith(path_pattern, WILDCARD) /\ ~re_compiles(pattern_to_regex(path_pattern))
    THEN Raised
    ELSE Returned(extract_parameters(path_pattern, actual_path))

-----------------------------------------------------------------------------
(* utils/soap_parser.py                                                    *)

\* SOAPParser._normalize_method_name
normalize_method_name(method_name) ==
    IF method_name = NoStr THEN NoStr
    ELSE LET a == Strip(Strip(Strip(Strip(method_name, WhiteSpace), {"\""}), {"'"}), WhiteSpace)
             b == IF \E i \in 1..Len(a) : a[i] = "?" THEN BeforeFirst(a, "?") ELSE a
         IN  IF \E i \in 1..Len(b) : b[i] = "#" THEN AfterLast(b, "#") ELSE b

\* the name the headers give, whatever its length and whatever the body holds
HeaderMethodOnly(headers, body) == normalize_method_name(headers.soap_method)

\* SOAPParser.extract_soap_method.  The request carries what the two scanners
\* extract_soap_method_from_headers and extract_soap_method_from_body find in
\* it (NoStr for None): headers.soap_method and body.soap_method.
extract_soap_method(headers, body) ==
    LET method_from_headers == headers.soap_method
        from_h == normalize_method_name(method_from_headers)
        from_b == normalize_method_name(body.soap_method)
    IN  IF /\ method_from_headers # NoStr
           /\ Len(Strip(method_from_headers, WhiteSpace)) > 1
           /\ from_h # NoStr /\ Len(from_h) > 1
        THEN from_h
        ELSE IF body.nonempty /\ body.soap_method # NoStr /\ from_b # NoStr
        THEN from_b
        ELSE IF method_from_headers # NoStr /\ from_h # NoStr
        THEN from_h
        ELSE NoStr

-----------------------------------------------------------------------------
(* services/mock_service.py                                                *)

\* MockServiceService._matches_soap_service
matches_soap_service(service_name, soap_method) ==
    IF service_name = NoStr \/ soap_method = NoStr THEN FALSE
    ELSE LET service_name_lower == Strip(Lower(service_name), WhiteSpace)
             soap_method_lower  == Strip(Lower(soap_method), WhiteSpace)
             service_parts == SplitOn(service_name_lower, {".", "_", "-"}, << >>)
             soap_parts    == SplitOn(soap_method_lower, {".", "_", "-"}, << >>)
         IN  \/ Contains(service_name_lower, soap_method_lower)
             \/ EndsWith(service_name_lower, <<"_">> \o soap_method_lower)
             \/ StartsWith(service_name_lower, soap_method_lower \o <<"_">>)
             \/ EndsWith(service_name_lower, <<".">> \o soap_method_lower)
             \/ StartsWith(service_name_lower, soap_method_lower \o <<".">>)
             \/ EndsWith(service_name_lower, soap_method_lower)
             \/ StartsWith(service_name_lower, soap_method_lower)
             \/ Contains(soap_method_lower, service_name_lower)
             \/ \E a \in 1..Len(service_parts), b \in 1..Len(soap_parts) :
                   /\ Len(service_parts[a]) > 2
                   /\ Len(soap_parts[b]) > 2
                   /\ \/ service_parts[a] = soap_parts[b]
                      \/ Contains(soap_parts[b], service_parts[a])
                      \/ Contains(service_parts[a], soap_parts[b])

\* method.upper() not in [m.upper() for m in service.methods]
MethodAllowed(service, method) ==
    \E k \in 1..Len(service.methods) : Upper(service.methods[k]) = Upper(method)

\* select(MockService).where(MockService.is_active == True)
ActiveServices(table) == SelectSeq(table, LAMBDA s : s.is_active)

\* What the router gives the handler: (None, {}), (service, path_params), or
\* the re.error that path_parser.extract_parameters raised
NotFound == [service |-> None, path_params |-> << >>, raised |-> FALSE]
Found(service, path_params) == [service |-> service.id, path_params |-> path_params, raised |-> FALSE]
RouterRaised == [service |-> None, path_params |-> << >>, raised |-> TRUE]

\* The loop of find_mock_service_by_path_and_method from row i on; fallback is
\* the (fallback_service, fallback_params) pair remembered so far.  The path
\* of a row is matched only when its method is allowed, and an exception of
\* the match ends the loop.
RECURSIVE FindLoop(_, _, _, _, _, _, _)
FindLoop(svcs, i, fallback, path, method, body, headers) ==
    IF i > Len(svcs) THEN fallback
    ELSE LET service == svcs[i]
             path_params == extract_parameters_call(service.path, path)
             soap_method == extract_soap_method(headers, body)
             next(fb) == FindLoop(svcs, i + 1, fb, path, method, body, headers)
         IN  IF ~MethodAllowed(service, method) THEN next(fallback)
             ELSE IF path_params.raised THEN RouterRaised
             ELSE IF ~path_params.matched THEN next(fallback)
             ELSE IF service.service_type = "soap" /\ headers.nonempty
                  THEN IF soap_method # NoStr
                       THEN IF matches_soap_service(service.name, soap_method)
                            THEN Found(service, path_params.params)
                            ELSE next(fallback)
                       ELSE next(Found(service, path_params.params))
             ELSE IF service.service_type = "rest"
                  THEN Found(service, path_params.params)
             ELSE next(fallback)

find_mock_service_by_path_and_method(table, path, method, body, headers) ==
    FindLoop(ActiveServices(table), 1, NotFound, path, method, body, headers)

-----------------------------------------------------------------------------
(* services/file_logger.py                                                 *)

\* RequestLogEntry: key is the model's name for the entry (request, number
\* of the log_request call within the request); the other fields are the
\* entry's own.
RequestLogEntry(key, mock_service_id, response_status, response_body, timestamp) ==
    [key |-> key, mock_service_id |-> mock_service_id,
     response_status |-> response_status, response_body |-> response_body,
     timestamp |-> timestamp]

\* What self.logger.info(...) leaves in the file: the rotating handler's emit
\* catches every error of the write (Handler.handleError), so a failed write
\* is silent.
LoggerInfo(file, entry, written) == IF written THEN Append(file, entry) ELSE file

\* logs.sort(key=lambda x: x.timestamp, reverse=True): stable, newest first
RECURSIVE InsertDesc(_, _)
InsertDesc(sorted, e) ==
    IF sorted = << >> THEN <<e>>
    ELSE IF Head(sorted).timestamp >= e.timestamp
         THEN <<Head(sorted)>> \o InsertDesc(Tail(sorted), e)
         ELSE <<e>> \o sorted
RECURSIVE SortDesc(_)
SortDesc(logs) == IF logs = << >> THEN << >>
                  ELSE InsertDesc(SortDesc(SubSeq(logs, 1, Len(logs) - 1)), logs[Len(logs)])

\* FileLogger.get_logs over the lines of the log file
get_logs(file, service_id, skip, limit) ==
    LET logs == SelectSeq(file, LAMBDA e : service_id = None \/ e.mock_service_id = service_id)
        srt  == SortDesc(logs)
        hi   == IF skip + limit < Len(srt) THEN skip + limit ELSE Len(srt)
    IN  Slice(srt, skip, hi)

-----------------------------------------------------------------------------
(* api/websocket.py: ConnectionManager                                     *)

Conns == 1..MaxConns

\* list.remove(x): the first occurrence
RECURSIVE ListRemove(_, _)
ListRemove(list, x) ==
    IF list = << >> THEN << >>
    ELSE IF Head(list) = x THEN Tail(list)
    ELSE <<Head(list)>> \o ListRemove(Tail(list), x)

InList(list, x) == \E i \in 1..Len(list) : list[i] = x

\* ConnectionManager.connect: the two registries after it
connect_active(active, websocket, service_id) == Append(active, websocket)
connect_service(by_service, websocket, service_id) ==
    IF service_id # None
    THEN IF service_id \in DOMAIN by_service
         THEN [by_service EXCEPT ![service_id] = Append(@, websocket)]
         ELSE [k \in DOMAIN by_service \cup {service_id} |->
                  IF k = service_id THEN <<websocket>> ELSE by_service[k]]
    ELSE by_service

\* ConnectionManager.disconnect: the two registries after it
disconnect_active(active, websocket) ==
    IF InList(active, websocket) THEN ListRemove(active, websocket) ELSE active
\* disconnect that leaves the emptied list of a service in the map
DisconnectServiceKeepEmpty(by_service, websocket, service_id) ==
    IF service_id # None /\ service_id \in DOMAIN by_service
    THEN [by_service EXCEPT ![service_id] =
             IF InList(@, websocket) THEN ListRemove(@, websocket) ELSE @]
    ELSE by_service

disconnect_service(by_service, websocket, service_id) ==
    IF service_id # None /\ service_id \in DOMAIN by_service
    THEN LET left == IF InList(by_service[service_id], websocket)
                     THEN ListRemove(by_service[service_id], websocket)
                     ELSE by_service[service_id]
         IN  IF left = << >>
             THEN [k \in DOMAIN by_service \ {service_id} |-> by_service[k]]
             ELSE [by_service EXCEPT ![service_id] = left]
    ELSE by_service

\* The send_personal_message coroutines one gather is given: one for each
\* connection of the copied list, in list order.
Tasks(entry, phase, connections) ==
    [i \in 1..Len(connections) |-> [entry |-> entry, phase |-> phase, ws |-> connections[i]]]

\* broadcast_to_all: the coroutines it creates
broadcast_to_all(active, entry) ==
    IF active # << >> THEN Tasks(entry, "all", active) ELSE << >>

\* broadcast_to_service, as broadcast_log_message calls it
broadcast_to_service(by_service, entry) ==
    IF entry.mock_service_id # None /\ entry.mock_service_id \in DOMAIN by_service
    THEN Tasks(entry, "service", by_service[entry.mock_service_id])
    ELSE << >>

SnapOf(tasks) == {<<tasks[i].entry.key, tasks[i].phase, tasks[i].ws>> : i \in 1..Len(tasks)}

\* The task queue when the error of a send_text ends the whole broadcast:
\* the other tasks of the same gather never run.
AfterSendAbort(queue, failed) ==
    IF failed
    THEN SelectSeq(Tail(queue), LAMBDA t : ~(/\ t.entry.key = Head(queue).entry.key
                                            /\ t.phase = Head(queue).phase))
    ELSE Tail(queue)

\* What is left of the task queue once its first task has run: the task
\* catches the error of its own send_text, so the other tasks stay.
AfterSend(queue, failed) == Tail(queue)

-----------------------------------------------------------------------------
(* api/websocket.py: the endpoints and the delivery of frames               *)

Requests == 1..MaxRequests

\* A handler waiting in process_request would keep the event loop as well
\* (a delay that does not yield)
RunningOrDelayed(r) ==
    \/ req[r].pc \in {"fanG", "fanS"} /\ ~req[r].waited
    \/ req[r].pc = "processing"

\* Handler r is between two suspensions: since its last step it has awaited
\* nothing that yields to the event loop (a broadcast over an empty list
\* creates no task and returns at once), so no other task runs before its
\* next step.
Running(r) == req[r].pc \in {"fanG", "fanS"} /\ ~req[r].waited

\* The event loop is free to run any ready task
LoopFree == \A r \in Requests : ~Running(r)

\* websocket_logs_all (service_id = None) and websocket_logs_service: the
\* connection is accepted and registered; the endpoint then waits in
\* receive_text.  Websockets connect in the order of their numbers.
Connect(c, service_id) ==
    /\ LoopFree
    /\ ws[c].st = "new"
    /\ c > 1 => ws[c - 1].st # "new"
    /\ active_connections' = connect_active(active_connections, c, service_id)
    /\ service_connections' = connect_service(service_connections, c, service_id)
    /\ ws' = [ws EXCEPT ![c] = [st |-> "open", service_id |-> service_id]]
    /\ UNCHANGED <<other, services, sendq, received, logfile, disk_ok, now, published, snaps,
                   attempts, send_failed, req>>

\* The transport of an open connection fails: from now on send_text raises.
\* The endpoint learns of it only when its receive_text raises (Disconnect).
Break(c) ==
    /\ LoopFree
    /\ ws[c].st = "open"
    /\ ws' = [ws EXCEPT ![c].st = "broken"]
    /\ UNCHANGED <<other, services, active_connections, service_connections, sendq, received,
                   logfile, disk_ok, now, published, snaps, attempts, send_failed, req>>

\* receive_text raises in the endpoint (the peer closed, or the transport
\* failed): the except branches call manager.disconnect.
Disconnect(c) ==
    /\ LoopFree
    /\ ws[c].st \in {"open", "broken"}
    /\ active_connections' = disconnect_active(active_connections, c)
    /\ service_connections' =
           disconnect_service(service_connections, c, ws[c].service_id)
    /\ ws' = [ws EXCEPT ![c].st = "closed"]
    /\ UNCHANGED <<other, services, sendq, received, logfile, disk_ok, now, published, snaps,
                   attempts, send_failed, req>>

\* The oldest send_personal_message task runs: send_text delivers the frame
\* to an open connection and raises on any other; the error is caught and
\* logged, nothing else happens.
SendStep ==
    /\ LoopFree
    /\ sendq # << >>
    /\ LET t == Head(sendq)
           ok == ws[t.ws].st = "open"
       IN  /\ received' = IF ok THEN [received EXCEPT ![t.ws] = Append(@, t.entry)]
                          ELSE received
           /\ send_failed' = IF ok THEN send_failed ELSE send_failed \cup {t.ws}
           /\ attempts' = attempts \cup {<<t.entry.key, t.phase, t.ws, ok>>}
           /\ sendq' = AfterSend(sendq, ~ok)
    /\ UNCHANGED <<other, services, active_connections, service_connections, ws, logfile,
                   disk_ok, now, published, snaps, req>>

-----------------------------------------------------------------------------
(* api/mock_handler.py: handle_mock_request                                *)

NoQuery    == [method |-> NoStr, path |-> NoStr,
               headers |-> [nonempty |-> FALSE, soap_method |-> NoStr],
               body |-> [nonempty |-> FALSE, soap_method |-> NoStr]]
NoOutcome  == [status |-> 0, body |-> "", loggable |-> TRUE, buildable |-> TRUE]
NoEntry    == RequestLogEntry(<<0, 0>>, None, 0, "", 0)
NoResponse == [status |-> 0, body |-> ""]
NoRouting  == [service |-> None, path_params |-> << >>, raised |-> FALSE]

ReqInit == [pc |-> "start", branch |-> "", q |-> NoQuery, found |-> NoRouting,
            out |-> NoOutcome, nlog |-> 0, entry |-> NoEntry, waited |-> TRUE,
            resp |-> NoResponse]

\* What process_request may return for a selected service, with two facts
\* about the returned values that decide what the handler does next:
\* loggable - json.dumps of the log entry built from them succeeds;
\* buildable - Response(content, status_code, headers) can be constructed
\* from them (header values must encode as latin-1).
StrategyResults ==
    { [status |-> 200, body |-> "hi",   loggable |-> TRUE,  buildable |-> TRUE],
      [status |-> 200, body |-> "hi",   loggable |-> TRUE,  buildable |-> FALSE],
      [status |-> 200, body |-> "big",  loggable |-> FALSE, buildable |-> TRUE] }

\* if not path.startswith('/'): path = f'/{path}'
HandlerPath(path) == IF StartsWith(path, <<"/">>) THEN path ELSE <<"/">> \o path

PendingFor(r) == \E i \in 1..Len(sendq) : sendq[i].entry.key[1] = r

\* From a log_request call that returns to the gather of broadcast_to_all:
\* the entry goes to the file (or the write fails silently), notify_new_log
\* hands it to broadcast_log_message, and the handler waits for the sends.
\* calls is the number of log_request calls made in this step, the last of
\* which returned entry.
LogAndNotify(r, locals, calls, sid, status, body) ==
    LET entry == RequestLogEntry(<<r, req[r].nlog + calls>>, sid, status, body, now + calls)
        tasks == broadcast_to_all(active_connections, entry)
    IN  /\ logfile' = LoggerInfo(logfile, entry, disk_ok)
        /\ now' = now + calls
        /\ published' = Append(published, entry)
        /\ sendq' = sendq \o tasks
        /\ snaps' = snaps \cup SnapOf(tasks)
        /\ req' = [req EXCEPT ![r] = [locals EXCEPT !.pc = "fanG", !.nlog = @ + calls,
                                                    !.entry = entry,
                                                    !.waited = tasks # << >>]]

\* The request arrives, the body is read and the router is asked.  The body
\* is read before the try statement: when the client disconnects before the
\* body has arrived, request.body() raises ClientDisconnect and the handler
\* ends there, with no record and no response (pc "aborted").  A miss is
\* logged with status 404; with a service selected the handler waits in
\* process_request; an exception of the router goes to the last except
\* branch, which logs status 500 without a service id.  Requests arrive in
\* the order of their numbers.
Route(r, queries) ==
    /\ LoopFree
    /\ req[r].pc = "start"
    /\ r > 1 => req[r - 1].pc # "start"
    /\ \/ /\ req' = [req EXCEPT ![r] = [@ EXCEPT !.pc = "aborted", !.branch = "aborted"]]
          /\ UNCHANGED <<logfile, now, published, sendq, snaps>>
       \/ \E q \in queries :
          LET found == find_mock_service_by_path_and_method(
                           services, HandlerPath(q.path), q.method, q.body, q.headers)
          IN  IF found.raised
              THEN LogAndNotify(r, [req[r] EXCEPT !.branch = "caught", !.q = q,
                                                      !.found = found],
                                1, None, 500, "error")
              ELSE IF found.service = None
              THEN LogAndNotify(r, [req[r] EXCEPT !.branch = "miss", !.q = q,
                                                      !.found = found],
                                1, None, 404, "not found")
              ELSE /\ req' = [req EXCEPT ![r] = [@ EXCEPT !.pc = "processing",
                                                          !.q = q, !.found = found]]
                   /\ UNCHANGED <<logfile, now, published, sendq, snaps>>
    /\ UNCHANGED <<other, services, active_connections, service_connections, ws, received,
                   disk_ok, attempts, send_failed>>

\* process_request returns; the entry is logged with the service's id.  When
\* log_request raises, the last except branch logs a second entry with
\* status 500 and no service id, and that one is published.
Process(r, results) ==
    /\ LoopFree
    /\ req[r].pc = "processing"
    /\ \E out \in results :
          IF out.loggable
          THEN LogAndNotify(r, [req[r] EXCEPT !.branch = "ok", !.out = out],
                            1, req[r].found.service, out.status, out.body)
          ELSE LogAndNotify(r, [req[r] EXCEPT !.branch = "caught", !.out = out],
                            2, None, 500, "error")
    /\ UNCHANGED <<other, services, active_connections, service_connections, ws, received,
                   disk_ok, attempts, send_failed>>

\* The gather of broadcast_to_all is over: broadcast_log_message goes on to
\* broadcast_to_service.
AfterGlobal(r) ==
    /\ \A o \in Requests \ {r} : ~Running(o)
    /\ req[r].pc = "fanG"
    /\ ~PendingFor(r)
    /\ LET tasks == broadcast_to_service(service_connections, req[r].entry)
       IN  /\ sendq' = sendq \o tasks
           /\ snaps' = snaps \cup SnapOf(tasks)
           /\ req' = [req EXCEPT ![r] = [@ EXCEPT !.pc = "fanS",
                                                  !.waited = tasks # << >>]]
    /\ UNCHANGED <<other, services, active_connections, service_connections, ws, received,
                   logfile, disk_ok, now, published, attempts, send_failed>>

\* notify_new_log has returned.  A miss raises HTTPException(404); the last
\* except branch raises HTTPException(500); otherwise the Response is built,
\* and when that raises the last except branch logs and publishes a second
\* entry first.
Finish(r) ==
    /\ \A o \in Requests \ {r} : ~Running(o)
    /\ req[r].pc = "fanS"
    /\ ~PendingFor(r)
    /\ IF req[r].branch = "ok" /\ ~req[r].out.buildable
       THEN LogAndNotify(r, [req[r] EXCEPT !.branch = "caught"],
                         1, None, 500, "error")
       ELSE /\ req' = [req EXCEPT ![r] = [@ EXCEPT
                   !.pc = "done",
                   !.resp = IF req[r].branch = "miss"
                            THEN [status |-> 404, body |-> "not found"]
                            ELSE IF req[r].branch = "caught"
                            THEN [status |-> 500, body |-> "error"]
                            ELSE [status |-> req[r].out.status,
                                  body |-> req[r].out.body]]]
            /\ UNCHANGED <<logfile, now, published, sendq, snaps>>
    /\ UNCHANGED <<other, services, active_connections, service_connections, ws, received,
                   disk_ok, attempts, send_failed>>

-----------------------------------------------------------------------------
(* The gateway with its subscribers.                                       *)

Str_GET  == <<"G", "E", "T">>
Str_POST == <<"P", "O", "S", "T">>

MockService(id, name, path, methods, service_type, is_active) ==
    [id |-> id, name |-> name, path |-> path, methods |-> methods,
     service_type |-> service_type, is_active |-> is_active]

Query(method, path, headers_nonempty, header_method, body_nonempty, body_method) ==
    [method |-> method, path |-> path,
     headers |-> [nonempty |-> headers_nonempty, soap_method |-> header_method],
     body |-> [nonempty |-> body_nonempty, soap_method |-> body_method]]

\* Two REST services, GET /h (id 1) and GET /b (id 2)
HubRegistry ==
    << MockService(1, <<"h", "i">>, <<"/", "h">>, <<Str_GET>>, "rest", TRUE),
       MockService(2, <<"b", "y">>, <<"/", "b">>, <<Str_GET>>, "rest", TRUE) >>

HubQueries ==
    { Query(Str_GET, <<"h">>, TRUE, NoStr, FALSE, NoStr),
      Query(Str_GET, <<"b">>, TRUE, NoStr, FALSE, NoStr),
      Query(Str_GET, <<"x">>, TRUE, NoStr, FALSE, NoStr) }

\* In this specification process_request returns well-formed values.
HubResults == {o \in StrategyResults : o.loggable /\ o.buildable}

\* /ws/logs (None) and /ws/logs/1
Subscriptions == {None, 1}

InitHub ==
    /\ active_connections = << >>
    /\ service_connections = << >>
    /\ ws = [c \in Conns |-> [st |-> "new", service_id |-> None]]
    /\ sendq = << >>
    /\ received = [c \in Conns |-> << >>]
    /\ logfile = << >>
    /\ disk_ok \in BOOLEAN
    /\ now = 0
    /\ published = << >>
    /\ snaps = {}
    /\ attempts = {}
    /\ send_failed = {}
    /\ req = [r \in Requests |-> ReqInit]
    /\ call = NoCall
    /\ ret = NoRet
    /\ logdir = << >>

Init == services = HubRegistry /\ InitHub

Next ==
    \/ \E c \in Conns, sid \in Subscriptions : Connect(c, sid)
    \/ \E c \in Conns : Break(c)
    \/ \E c \in Conns : Disconnect(c)
    \/ SendStep
    \/ \E r \in Requests : Route(r, HubQueries)
    \/ \E r \in Requests : Process(r, HubResults)
    \/ \E r \in Requests : AfterGlobal(r)
    \/ \E r \in Requests : Finish(r)

Spec == Init /\ [][Next]_vars

\* The hub with its subscribers while one request is served
NextFanout ==
    \/ \E c \in Conns, sid \in Subscriptions : Connect(c, sid)
    \/ \E c \in Conns : Break(c)
    \/ \E c \in Conns : Disconnect(c)
    \/ SendStep
    \/ Route(1, HubQueries)
    \/ Process(1, HubResults)
    \/ AfterGlobal(1)
    \/ Finish(1)

SpecFanout == Init /\ [][NextFanout]_vars

-----------------------------------------------------------------------------
(* One request through the handler, for every registry of up to MaxServices *)
(* rows, every query and every strategy result; nobody is subscribed and   *)
(* the log directory can be written.                                       *)

\* The rows a registry is made of (ids are given by the position in the
\* table); the template of the last one, "/{a\n}", is one that
\* validate_path_pattern accepts and create_mock_service stores
Catalog ==
    { MockService(0, <<"h", "i">>, <<"/", "h">>, <<Str_GET>>, "rest", TRUE),
      MockService(0, <<"o", "f", "f">>, <<"/", "h">>, <<Str_GET>>, "rest", FALSE),
      MockService(0, <<"X", "_", "A", "d", "d">>, <<"/", "s">>,
                  << <<"p", "o", "s", "t">> >>, "soap", TRUE),
      MockService(0, <<"X", "_", "S", "u", "b">>, <<"/", "s">>, <<Str_POST>>, "soap", TRUE),
      MockService(0, <<"a", "n", "y">>, <<"/", "{", "i", "}">>,
                  <<Str_GET, Str_POST>>, "rest", TRUE),
      MockService(0, <<"n", "l">>, <<"/", "{", "a", "\n", "}">>, <<Str_GET>>, "rest", TRUE) }

WithIds(rows) == [i \in 1..Len(rows) |-> [rows[i] EXCEPT !.id = i]]

Registries ==
    { WithIds(rows) : rows \in UNION { [1..n -> Catalog] : n \in 0..MaxServices } }

HandlerQueries ==
    { Query(m, p, sig[1], sig[2], sig[3], sig[4]) :
        m \in {Str_GET, Str_POST},
        p \in { <<"h">>, <<"s">>, <<"x", "/", "y">> },
        sig \in { <<TRUE,  NoStr, FALSE, NoStr>>,
                  <<TRUE,  <<"A", "d", "d">>, FALSE, NoStr>>,
                  <<TRUE,  NoStr, TRUE, <<"S", "u", "b">> >>,
                  <<FALSE, NoStr, FALSE, NoStr>> } }

InitHandler == services \in Registries /\ InitHub /\ disk_ok

NextHandler ==
    \/ Route(1, HandlerQueries)
    \/ Process(1, StrategyResults)
    \/ AfterGlobal(1)
    \/ Finish(1)

SpecHandler == InitHandler /\ [][NextHandler]_vars

-----------------------------------------------------------------------------
(* Properties of one request (SpecHandler)                                 *)

\* The lines of the log file that belong to request r
RecordsOf(r) == {i \in 1..Len(logfile) : logfile[i].key[1] = r}

\* C1: every invocation of the handler that has ended, with an answer or
\* with an exception, has appended exactly one record to the request log,
\* never zero and never two.
C1_ExactlyOneRecord ==
    \A r \in Requests :
        req[r].pc \in {"done", "aborted"} => Cardinality(RecordsOf(r)) = 1

\* C8: when a service was selected and the response the strategy produced
\* can be built, the client receives that response, whatever happened to the
\* log record (log_request raising included) and to the deliveries.
C8_ResponseUnchanged ==
    \A r \in Requests :
        (req[r].pc = "done" /\ req[r].found.service # None /\ req[r].out.buildable)
            => req[r].resp = [status |-> req[r].out.status, body |-> req[r].out.body]

\* Service s is active, allows the method of q and its pattern matches the
\* path of q.
Eligible(s, q) ==
    /\ s.is_active
    /\ \E k \in 1..Len(s.methods) : Upper(s.methods[k]) = Upper(q.method)
    /\ extract_parameters_call(s.path, HandlerPath(q.path)).matched

EligibleRows(q, type) ==
    {i \in 1..Len(services) : Eligible(services[i], q) /\ services[i].service_type = type}

Minimum(S) == CHOOSE x \in S : \A y \in S : x <= y

\* C9: when several active SOAP services match the method and the path, no
\* SOAP method name can be extracted from the request (which carries
\* headers, as every HTTP/1.1 request does) and no REST service matches, the
\* router returns the first of those SOAP services.
C9_FirstSoapFallback ==
    \A r \in Requests :
        LET q == req[r].q
        IN  (/\ req[r].pc \notin {"start", "aborted"}
             /\ q.headers.nonempty
             /\ Cardinality(EligibleRows(q, "soap")) >= 2
             /\ EligibleRows(q, "rest") = {}
             /\ extract_soap_method(q.headers, q.body) = NoStr)
                => req[r].found.service = services[Minimum(EligibleRows(q, "soap"))].id

\* C10: the service the router returns is active, allows the request's
\* method (compared without case) and its pattern matches the path; when no
\* service is all three the router reports a miss and the handler answers
\* 404.
C10_OnlyEligible ==
    \A r \in Requests :
        LET q == req[r].q
            found == req[r].found
        IN  req[r].pc \notin {"start", "aborted"} =>
              /\ found.service # None =>
                    \E i \in 1..Len(services) :
                        services[i].id = found.service /\ Eligible(services[i], q)
              /\ (\A i \in 1..Len(services) : ~Eligible(services[i], q)) =>
                    /\ found.service = None
                    /\ req[r].pc = "done" => req[r].resp.status = 404

-----------------------------------------------------------------------------
(* Properties of the hub (Spec, SpecFanout)                                *)

\* The frames of the record named key that connection c has been sent
FramesFor(c, key) == {i \in 1..Len(received[c]) : received[c][i].key = key}

\* C2: for every published record and every connection, however it was
\* registered, at most one frame for the record is sent to the connection.
C2_AtMostOneFrame ==
    \A c \in Conns : \A k \in 1..Len(published) :
        Cardinality(FramesFor(c, published[k].key)) <= 1

\* C3: a connection registered for service id s is sent a frame only for
\* records whose service id is s.
C3_OnlyOwnService ==
    \A c \in Conns : ws[c].service_id # None =>
        \A i \in 1..Len(received[c]) :
            received[c][i].mock_service_id = ws[c].service_id

\* log_reader.get() with its default paging
GetLimit == 100
Readable(e) == InList(get_logs(logfile, None, 0, GetLimit), e)

\* C4: whenever a subscriber has received the frame of a record, a get()
\* issued at that moment returns the record, also when the write to the file
\* failed.
C4_ReadableOnFrame ==
    \A c \in Conns : \A i \in 1..Len(received[c]) : Readable(received[c][i])

\* The position of the record of frame e in the order of publication
PubIndex(e) == CHOOSE k \in 1..Len(published) : published[k].key = e.key

\* C5: on every connection the frames arrive in the order in which their
\* records were published: no frame of an earlier record follows a frame of
\* a later one.
C5_PublishOrder ==
    \A c \in Conns : \A i, j \in 1..Len(received[c]) :
        i < j => PubIndex(received[c][i]) <= PubIndex(received[c][j])

\* C6: a connection to which a send has failed is in neither registry.
C6_RemovedOnFailure ==
    \A c \in send_failed :
        /\ ~InList(active_connections, c)
        /\ \A k \in DOMAIN service_connections : ~InList(service_connections[k], c)

\* The handler of the record named key has left the gather of that phase
PhaseOver(key, phase) ==
    LET h == req[key[1]]
    IN  \/ h.pc = "done"
        \/ h.nlog > key[2]
        \/ h.entry.key = key /\ phase = "all" /\ h.pc = "fanS"

\* C7: once a phase of the fan-out of a record is over, a send has been
\* attempted to every connection of the phase's snapshot, whatever happened
\* to the sends to the others, and each of them whose send did not fail has
\* the frame.
C7_FailureIsolated ==
    \A s \in snaps : PhaseOver(s[1], s[2]) =>
        /\ \E ok \in BOOLEAN : <<s[1], s[2], s[3], ok>> \in attempts
        /\ <<s[1], s[2], s[3], TRUE>> \in attempts => FramesFor(s[3], s[1]) # {}

\* C7: in the global phase and in the per-service phase of one record the
\* send to one connection of the snapshot failed and another connection of
\* the same snapshot has the frame.
C7_Witness ==
    \E key \in {published[k].key : k \in 1..Len(published)} :
        \A phase \in {"all", "service"} :
            /\ PhaseOver(key, phase)
            /\ \E a, b \in Conns :
                  /\ a # b
                  /\ {<<key, phase, a>>, <<key, phase, b>>} \subseteq snaps
                  /\ <<key, phase, a, FALSE>> \in attempts
                  /\ <<key, phase, b, TRUE>> \in attempts
                  /\ FramesFor(b, key) # {}

-----------------------------------------------------------------------------
(* services/mock_processor.py: the response template of a static branch    *)

\* ' + ', ' - ', ' * ', ' / ', 'str(', 'int(', 'float('
TemplateOperators ==
    { <<" ", "+", " ">>, <<" ", "-", " ">>, <<" ", "*", " ">>, <<" ", "/", " ">>,
      <<"s", "t", "r", "(">>, <<"i", "n", "t", "(">>, <<"f", "l", "o", "a", "t", "(">> }

\* context: the variables of the context that are not in the list of the
\* seven names the code skips (path_params is not in that list), each with
\* str(value), in the order of context.items()
contains_python(response_template, context) ==
    \/ \E i \in 1..Len(context) : Contains(response_template, context[i][1])
    \/ \E op \in TemplateOperators : Contains(response_template, op)

JsonShaped(response_template) ==
    /\ StartsWith(Strip(response_template, WhiteSpace), <<"{">>)
    /\ EndsWith(Strip(response_template, WhiteSpace), <<"}">>)

\* for var_name, var_value in local_context.items():
\*     result = result.replace(str(var_name), str(var_value))
RECURSIVE ReplaceVars(_, _)
ReplaceVars(result, context) ==
    IF context = << >> THEN result
    ELSE ReplaceVars(ReplaceAll(result, Head(context)[1], Head(context)[2]), Tail(context))

\* what an error of eval (or of json.dumps) leaves as the result
OnEvalError(response_template, context) ==
    IF JsonShaped(response_template) THEN ReplaceVars(response_template, context)
    ELSE response_template

\* evaluated: the text eval gives, or "error" when it raises
process_response_template(response_template, context, evaluated) ==
    IF ~contains_python(response_template, context) THEN response_template
    ELSE IF evaluated = "error" THEN OnEvalError(response_template, context)
    ELSE evaluated

-----------------------------------------------------------------------------
(* services/mock_processor.py: the CONDITIONAL strategy                    *)

MaxBranches == 3      \* entries of conditional_responses

\* What self.http_client.request does: it returns the upstream's response,
\* raises an httpx.RequestError (DNS, connection, timeout) or raises
\* something else.
Upstream == {"response", "transport_error", "other_error"}

\* (status_code, response_body, proxy_info["proxy_error"]) of
\* _proxy_conditional_request: its one except branch takes every exception.
\* The upstream that answers sends status 200, the body "upstream" and no
\* header, so the headers returned for a proxied entry are {}.
proxy_conditional_result(upstream) ==
    IF upstream = "response"
    THEN [status |-> 200, body |-> "upstream", proxy_error |-> ""]
    ELSE [status |-> 500, body |-> "proxy failed", proxy_error |-> upstream]

\* The tuple _process_conditional returns, with the branch it came from (0:
\* none) and the branches whose condition was given to eval, in order.
\* headers is the dict returned ({} as << >>); proxy_info is << >> for None
\* and <<proxy_error>> for the dict of a proxied branch.
CondResult(status, body, branch, evaluated) ==
    [op |-> "conditional", status |-> status, body |-> body, branch |-> branch,
     evaluated |-> evaluated, headers |-> << >>, proxy_info |-> << >>]

\* A nullable JSON column holding a dict: None, or the dict's items
NoneDict == [is_none |-> TRUE, items |-> << >>]
Dict(items) == [is_none |-> FALSE, items |-> items]

\* x or {}
OrEmptyDict(x) == IF x.is_none \/ x.items = << >> THEN << >> ELSE x.items

\* a default response with the status and the headers of a fresh service
DefaultResponseFixed(mock_service, body, evaluated) ==
    CondResult(200, body, 0, evaluated)

\* return (mock_service.conditional_status_code, "...",
\*         mock_service.conditional_headers or {}, None)
DefaultResponse(mock_service, body, evaluated) ==
    [CondResult(mock_service.conditional_status_code, body, 0, evaluated)
        EXCEPT !.headers = OrEmptyDict(mock_service.conditional_headers)]

RECURSIVE CondLoop(_, _, _, _, _, _)

\* The loop on a condition whose eval raises, were the error to leave the
\* loop: the except branch around the whole strategy answers 500.
OnConditionErrorAbort(mock_service, responses, i, evaluated, upstream, context) ==
    CondResult(500, "condition code failed", 0, evaluated)

\* except Exception: continue, the except branch of the try around one
\* entry: it takes an error of eval and an error of what follows a truthy
\* condition
OnConditionError(mock_service, responses, i, evaluated, upstream, context) ==
    CondLoop(mock_service, responses, i + 1, evaluated, upstream, context)

\* for i, resp_data in enumerate(mock_service.conditional_responses): from
\* entry i on, evaluated being the entries given to eval so far.  An entry
\* that is None and an entry whose condition is None are passed over without
\* an eval.  After a truthy condition resp_data.get('delay', 0) > 0 is
\* computed inside the try: on a delay of None it raises TypeError and the
\* entry is passed over; a delay above 0 is slept.  A static answer carries
\* the entry's headers or {}, and its body is the entry's response given to
\* _process_response_template with the context the condition code left.
CondLoop(mock_service, responses, i, evaluated, upstream, context) ==
    IF i > Len(responses)
    THEN DefaultResponse(mock_service, "no condition held", evaluated)
    ELSE LET resp_data == responses[i]
             seen == Append(evaluated, i)
             headers == OrEmptyDict(resp_data.headers)
         IN  IF resp_data.is_none
             THEN CondLoop(mock_service, responses, i + 1, evaluated, upstream, context)
             ELSE IF resp_data.condition = "none"
             THEN CondLoop(mock_service, responses, i + 1, evaluated, upstream, context)
             ELSE IF resp_data.condition = "raises"
             THEN OnConditionError(mock_service, responses, i, seen, upstream, context)
             ELSE IF resp_data.condition = "falsy"
             THEN CondLoop(mock_service, responses, i + 1, seen, upstream, context)
             ELSE IF resp_data.delay = << >>
             THEN OnConditionError(mock_service, responses, i, seen, upstream, context)
             ELSE IF resp_data.response_type = "proxy"
             THEN IF resp_data.proxy_url # NoStr
                  THEN LET r == proxy_conditional_result(upstream)
                       IN  [CondResult(r.status, r.body, i, seen)
                               EXCEPT !.proxy_info = <<r.proxy_error>>]
                  ELSE CondResult(500, "no proxy_url", i, seen)
             ELSE [CondResult(resp_data.status_code,
                              process_response_template(resp_data.response, context,
                                                        resp_data.value),
                              i, seen)
                      EXCEPT !.headers = headers]

\* MockProcessor._process_conditional for a service whose condition_code
\* is code ("empty": none, "raises": exec raises, "runs") on a request for
\* which the conditions evaluate as the entries say.  context holds the
\* variables of the context after exec that are not request data, with
\* str(value): path_params and the variables the condition code assigned.
\* The body of the 500 answer, "condition code failed", stands for the text
\* built from str(e).
process_conditional(mock_service, code, responses, upstream, context) ==
    IF code # "empty" /\ responses # << >>
    THEN IF code = "raises"
         THEN CondResult(500, "condition code failed", 0, << >>)
         ELSE CondLoop(mock_service, responses, 1, << >>, upstream, context)
    ELSE DefaultResponse(mock_service, "no conditions", << >>)

\* An entry of conditional_responses: the dict of a ConditionalResponse, or
\* None.  condition is what eval of the condition gives on the request at
\* hand ("none": the condition is None); headers is None or a dict; delay
\* is << >> for None and <<seconds>> for a number; value is the text eval of
\* the response gives on that request, "error" when it raises.
ResponseEntry(condition, response_type, response, status_code, proxy_url, headers, delay, value) ==
    [is_none |-> FALSE, condition |-> condition, response_type |-> response_type,
     response |-> response, status_code |-> status_code, proxy_url |-> proxy_url,
     headers |-> headers, delay |-> delay, value |-> value]

\* The contexts the condition code leaves: path_params alone (the code of
\* the service assigns nothing), and with it the variable a = 7
ConditionalContexts ==
    { << <<<<"p", "a", "t", "h", "_", "p", "a", "r", "a", "m", "s">>, <<"{", "}">>>> >>,
      << <<<<"p", "a", "t", "h", "_", "p", "a", "r", "a", "m", "s">>, <<"{", "}">>>>,
         <<<<"a">>, <<"7">>>> >> }

\* eval of a response that is one name: str of the variable's value,
\* NameError when the context has no such variable
NameValue(name, context) ==
    IF \E i \in 1..Len(context) : context[i][1] = name
    THEN context[CHOOSE i \in 1..Len(context) : context[i][1] = name][2]
    ELSE "error"

\* The entries the schema lets through (condition: str, delay: float >= 0),
\* as create_mock_service and update_mock_service store them, on a request
\* that leaves context: the static responses are the names a and b
Branches(context) ==
    { ResponseEntry(c, "static", <<"a">>, 200, NoStr, NoneDict, <<0>>,
                    NameValue(<<"a">>, context)) :
          c \in {"truthy", "falsy", "raises"} }
    \cup { ResponseEntry(c, "static", <<"b">>, 201, NoStr, Dict(<< <<"h", "1">> >>), <<1>>,
                         NameValue(<<"b">>, context)) :
          c \in {"truthy", "falsy", "raises"} }
    \cup { ResponseEntry("truthy", "proxy", << >>, 200, u, NoneDict, <<0>>, "error") :
          u \in {NoStr, <<"u">>} }
    \cup { ResponseEntry("truthy", "proxy", << >>, 200, <<"u">>, Dict(<< <<"h", "1">> >>),
                         <<1>>, "error") }

\* (conditional_status_code, conditional_headers) of the service: the
\* column defaults, and a status with a header
ConditionalDefaults ==
    { [conditional_status_code |-> 200, conditional_headers |-> NoneDict],
      [conditional_status_code |-> 404,
       conditional_headers |-> Dict(<< <<"k", "v">> >>)] }

ConditionalCalls ==
    UNION { [op : {"conditional"}, mock_service : ConditionalDefaults, code : {"runs"},
             responses : UNION {[1..n -> Branches(context)] : n \in 0..MaxBranches},
             upstream : {"response"}, context : {context}]
            \cup [op : {"conditional"}, mock_service : ConditionalDefaults,
                  code : {"empty", "raises", "runs"},
                  responses : UNION {[1..n -> Branches(context)] : n \in 0..1},
                  upstream : Upstream, context : {context}]
            : context \in ConditionalContexts }

InitOther ==
    /\ services = << >>
    /\ active_connections = << >>
    /\ service_connections = << >>
    /\ ws = [c \in Conns |-> [st |-> "new", service_id |-> None]]
    /\ sendq = << >>
    /\ received = [c \in Conns |-> << >>]
    /\ logfile = << >>
    /\ disk_ok = TRUE
    /\ now = 0
    /\ published = << >>
    /\ snaps = {}
    /\ attempts = {}
    /\ send_failed = {}
    /\ req = [r \in Requests |-> ReqInit]

\* The variables of the gateway, which the functions below do not touch
gateway == <<services, active_connections, service_connections, ws, sendq, received,
             logfile, disk_ok, now, published, snaps, attempts, send_failed, req>>

ProcessConditional ==
    /\ call.op = "conditional"
    /\ ret = NoRet
    /\ ret' = process_conditional(call.mock_service, call.code, call.responses,
                                   call.upstream, call.context)
    /\ UNCHANGED <<gateway, call, logdir>>

InitConditional == InitOther /\ call \in ConditionalCalls /\ ret = NoRet /\ logdir = << >>

SpecConditional == InitConditional /\ [][ProcessConditional]_vars

\* The first entry of responses whose condition is truthy, 0 when none is
FirstTruthy(responses) ==
    IF \E i \in 1..Len(responses) : responses[i].condition = "truthy"
    THEN CHOOSE i \in 1..Len(responses) :
            /\ responses[i].condition = "truthy"
            /\ \A j \in 1..(i - 1) : responses[j].condition # "truthy"
    ELSE 0

\* C11: when the condition code runs, the response comes from the first
\* entry whose condition is truthy (a static answer has the entry's status
\* and, as body, the entry's response as it stands or evaluated), the
\* conditions evaluated are exactly those of the entries up to and
\* including it, in list order, and every one before it was falsy or
\* raised; with no truthy entry all are evaluated and the default response
\* is returned.
C11_FirstTruthyWins ==
    (ret # NoRet /\ call.op = "conditional" /\ call.code = "runs" /\ call.responses # << >>) =>
        LET k == FirstTruthy(call.responses)
            n == IF k = 0 THEN Len(call.responses) ELSE k
        IN  /\ ret.branch = k
            /\ ret.evaluated = [i \in 1..n |-> i]
            /\ k # 0 /\ call.responses[k].response_type = "static" =>
                   /\ ret.status = call.responses[k].status_code
                   /\ ret.body \in {call.responses[k].response, call.responses[k].value}
            /\ k = 0 => ret.body = "no condition held"

\* C27: a failure while executing the condition code yields a 500 answer
\* with no branch evaluated; a failure evaluating one branch's condition
\* only skips that branch, the later branches being evaluated; when no
\* branch is truthy, or there is nothing to evaluate, the answer is the
\* service's conditional status and headers with no proxy info.
C27_ConditionalErrors ==
    (ret # NoRet /\ call.op = "conditional") =>
        LET responses == call.responses
            k == FirstTruthy(responses)
            evaluable == call.code # "empty" /\ responses # << >>
        IN  /\ (evaluable /\ call.code = "raises") =>
                   /\ ret.status = 500 /\ ret.body = "condition code failed"
                   /\ ret.evaluated = << >> /\ ret.branch = 0
            /\ (evaluable /\ call.code = "runs") =>
                   \A i \in 1..Len(responses) :
                       (responses[i].condition = "raises" /\ (k = 0 \/ i < k)) =>
                           /\ ret.branch # i
                           /\ \A j \in (i + 1)..Len(responses) :
                                  (k = 0 \/ j <= k) => InList(ret.evaluated, j)
            /\ (~evaluable \/ (call.code = "runs" /\ k = 0)) =>
                   /\ ret.status = call.mock_service.conditional_status_code
                   /\ ret.headers = OrEmptyDict(call.mock_service.conditional_headers)
                   /\ ret.proxy_info = << >>

\* a branch's condition failed, no other branch was truthy, and the answer
\* is the service's own status and header
C27_Witness ==
    /\ ret # NoRet /\ call.op = "conditional" /\ call.code = "runs"
    /\ Len(call.responses) = 2
    /\ call.responses[1].condition = "raises"
    /\ call.responses[2].condition = "falsy"
    /\ ret.evaluated = <<1, 2>>
    /\ ret.status = 404
    /\ ret.headers = << <<"k", "v">> >>
    /\ ret.proxy_info = << >>

\* C11: the third entry answered, after one entry whose condition raised and
\* one whose condition was falsy
C11_Witness ==
    /\ ret # NoRet /\ call.op = "conditional"
    /\ Len(call.responses) = 3
    /\ call.responses[1].condition = "raises"
    /\ call.responses[2].condition = "falsy"
    /\ call.responses[3].response = <<"a">>
    /\ ret.branch = 3
    /\ ret.evaluated = <<1, 2, 3>>
    /\ ret.body = <<"7">>

-----------------------------------------------------------------------------
(* services/mock_processor.py: proxying                                    *)

MaxHeaders == 2       \* header lines of a request or of an upstream response

\* Headers are lists of <<name, value>> lines; a Python dict is such a list
\* with distinct names, in insertion order.

\* d[key] = value
DictSet(d, key, value) ==
    IF \E i \in 1..Len(d) : d[i][1] = key
    THEN [i \in 1..Len(d) |-> IF d[i][1] = key THEN <<key, value>> ELSE d[i]]
    ELSE Append(d, <<key, value>>)

\* for key, value in items: if key.lower() not in excluded: d[key] = value
RECURSIVE CopyHeaders(_, _, _)
CopyHeaders(items, excluded, d) ==
    IF items = << >> THEN d
    ELSE CopyHeaders(Tail(items), excluded,
                     IF Lower(Head(items)[1]) \in excluded THEN d
                     ELSE DictSet(d, Head(items)[1], Head(items)[2]))

\* httpx.Headers.items(): names in lower case, the values of lines of one
\* name joined by ", "
RECURSIVE HttpxItems(_, _)
HttpxItems(raw, d) ==
    IF raw = << >> THEN d
    ELSE LET key == Lower(Head(raw)[1])
             value == Head(raw)[2]
         IN  HttpxItems(Tail(raw),
                 IF \E i \in 1..Len(d) : d[i][1] = key
                 THEN [i \in 1..Len(d) |->
                          IF d[i][1] = key THEN <<key, d[i][2] \o <<",", " ">> \o value>>
                          ELSE d[i]]
                 ELSE Append(d, <<key, value>>))

excluded_headers == { <<"c", "o", "n", "t", "e", "n", "t", "-", "l", "e", "n", "g", "t", "h">>, <<"h", "o", "s", "t">> }
excluded_response_headers == { <<"c", "o", "n", "t", "e", "n", "t", "-", "l", "e", "n", "g", "t", "h">>, <<"t", "r", "a", "n", "s", "f", "e", "r", "-", "e", "n", "c", "o", "d", "i", "n", "g">>, <<"c", "o", "n", "n", "e", "c", "t", "i", "o", "n">>, <<"c", "o", "n", "t", "e", "n", "t", "-", "e", "n", "c", "o", "d", "i", "n", "g">> }

\* What the two proxy functions return: status_code, the response headers,
\* and of proxy_info the keys proxy_headers and proxy_error ("" for None)
ProxyResult(op, status, headers, proxy_headers, proxy_error) ==
    [op |-> op, status |-> status, headers |-> headers,
     proxy_headers |-> proxy_headers, proxy_error |-> proxy_error]

\* MockProcessor._process_proxy: `except httpx.RequestError` answers 502,
\* `except Exception` answers 500
process_proxy(proxy_url, request_headers, upstream, upstream_headers) ==
    IF proxy_url = NoStr THEN ProxyResult("proxy", 500, << >>, << >>, "")
    ELSE LET headers == CopyHeaders(request_headers, excluded_headers, << >>)
             response_headers ==
                 CopyHeaders(HttpxItems(upstream_headers, << >>),
                             excluded_response_headers, << >>)
         IN  IF upstream = "response"
             THEN ProxyResult("proxy", 200, response_headers, headers, "")
             ELSE IF upstream = "transport_error"
             THEN ProxyResult("proxy", 502, << >>, headers, upstream)
             ELSE ProxyResult("proxy", 500, << >>, headers, upstream)

\* MockProcessor._proxy_conditional_request: one `except Exception`
proxy_conditional_request(proxy_url, request_headers, upstream, upstream_headers) ==
    LET proxy_headers == CopyHeaders(request_headers, excluded_headers, << >>)
        response_headers ==
            CopyHeaders(HttpxItems(upstream_headers, << >>),
                        excluded_response_headers, << >>)
        r == proxy_conditional_result(upstream)
    IN  IF upstream = "response"
        THEN ProxyResult("conditional_proxy", r.status, response_headers, proxy_headers, "")
        ELSE ProxyResult("conditional_proxy", r.status, << >>, proxy_headers, r.proxy_error)

RequestHeaderLines ==
    { <<"H", "o", "s", "t">>, <<"C", "O", "N", "T", "E", "N", "T", "-", "L", "E", "N", "G", "T", "H">>, <<"x", "-", "a">>, <<"X", "-", "B">> } \X { <<"1">>, <<"2">> }
UpstreamHeaderLines ==
    { <<"C", "o", "n", "t", "e", "n", "t", "-", "L", "e", "n", "g", "t", "h">>, <<"t", "r", "a", "n", "s", "f", "e", "r", "-", "e", "n", "c", "o", "d", "i", "n", "g">>, <<"C", "o", "n", "n", "e", "c", "t", "i", "o", "n">>, <<"c", "o", "n", "t", "e", "n", "t", "-", "e", "n", "c", "o", "d", "i", "n", "g">>, <<"x", "-", "c">>, <<"X", "-", "D">> }
        \X { <<"1">>, <<"2">> }

HeaderLists(lines) == UNION {[1..n -> lines] : n \in 0..MaxHeaders}

ProxyCalls ==
    [op : {"proxy", "conditional_proxy"}, proxy_url : {<<"u">>},
     request_headers : HeaderLists(RequestHeaderLines),
     upstream : Upstream, upstream_headers : {<< >>}]
    \cup [op : {"proxy", "conditional_proxy"}, proxy_url : {<<"u">>},
          request_headers : {<< >>},
          upstream : {"response"}, upstream_headers : HeaderLists(UpstreamHeaderLines)]
    \cup [op : {"proxy"}, proxy_url : {NoStr}, request_headers : {<< >>},
          upstream : {"response"}, upstream_headers : {<< >>}]

ProcessProxy ==
    /\ call.op = "proxy"
    /\ ret = NoRet
    /\ ret' = process_proxy(call.proxy_url, call.request_headers, call.upstream,
                            call.upstream_headers)
    /\ UNCHANGED <<gateway, call, logdir>>

ProxyConditionalRequest ==
    /\ call.op = "conditional_proxy"
    /\ ret = NoRet
    /\ ret' = proxy_conditional_request(call.proxy_url, call.request_headers,
                                        call.upstream, call.upstream_headers)
    /\ UNCHANGED <<gateway, call, logdir>>

InitProxy == InitOther /\ call \in ProxyCalls /\ ret = NoRet /\ logdir = << >>

NextProxy == ProcessProxy \/ ProxyConditionalRequest

SpecProxy == InitProxy /\ [][NextProxy]_vars

\* C12: a transport error of the upstream call gives status 502 with the
\* error in proxy_info, for a PROXY service and for a proxy branch of a
\* CONDITIONAL service alike; any other error gives 500.
C12_TransportError502 ==
    (ret # NoRet /\ call.op \in {"proxy", "conditional_proxy"} /\ call.proxy_url # NoStr) =>
        /\ call.upstream = "transport_error" => ret.status = 502 /\ ret.proxy_error # ""
        /\ call.upstream = "other_error" => ret.status = 500

HeaderNames(lines) == {Lower(lines[i][1]) : i \in 1..Len(lines)}

\* C13: the headers sent upstream have neither Content-Length nor Host and
\* have every other line of the request as it was; the headers returned
\* have none of Content-Length, Transfer-Encoding, Connection and
\* Content-Encoding and have every other header of the upstream response.
C13_HeaderFiltering ==
    (ret # NoRet /\ call.op \in {"proxy", "conditional_proxy"} /\ call.proxy_url # NoStr) =>
        /\ HeaderNames(ret.proxy_headers) \cap excluded_headers = {}
        /\ \A i \in 1..Len(call.request_headers) :
              Lower(call.request_headers[i][1]) \notin excluded_headers =>
                  InList(ret.proxy_headers, call.request_headers[i])
        /\ call.upstream = "response" =>
              /\ HeaderNames(ret.headers) \cap excluded_response_headers = {}
              /\ HeaderNames(call.upstream_headers) \ excluded_response_headers
                     \subseteq HeaderNames(ret.headers)

-----------------------------------------------------------------------------
(* services/mock_processor.py: the target URL                              *)

\* f"{{{param_name}}}"
Placeholder(param_name) == <<"{">> \o param_name \o <<"}">>

\* for param_name, param_value in path_params.items(): replace when present
RECURSIVE ReplaceEach(_, _)
ReplaceEach(target_url, path_params) ==
    IF path_params = << >> THEN target_url
    ELSE ReplaceEach(ReplaceAll(target_url, Placeholder(Head(path_params)[1]),
                                Head(path_params)[2]),
                     Tail(path_params))

extract_additional_path(mock_path0, request_path0) ==
    LET mock_path == RStrip(mock_path0, {"/"})
        request_path == RStrip(request_path0, {"/"})
    IN  IF mock_path = request_path THEN << >>
        ELSE IF StartsWith(request_path, mock_path)
        THEN LET additional == SubSeq(request_path, Len(mock_path) + 1, Len(request_path))
             IN  IF StartsWith(additional, <<"/">>) THEN additional
                 ELSE <<"/">> \o additional
        ELSE request_path

proxy_has_params(proxy_url, path_params) ==
    \E i \in 1..Len(path_params) : Contains(proxy_url, Placeholder(path_params[i][1]))

WithQuery(target_url, query_string) ==
    IF query_string # << >> THEN target_url \o <<"?">> \o query_string ELSE target_url

build_proxy_url(proxy_url, mock_path, request_path, path_params, query_string) ==
    IF proxy_has_params(proxy_url, path_params)
    THEN WithQuery(ReplaceEach(proxy_url, path_params), query_string)
    ELSE WithQuery(RStrip(proxy_url, {"/"})
                   \o (IF request_path # mock_path
                       THEN extract_additional_path(mock_path, request_path)
                       ELSE << >>),
                   query_string)

MockPaths == { <<"/", "u">>, <<"/", "u", "/", "{", "a", "}">>, <<"/", "{", "a", "}", "/", "{", "b", "}">>, <<"/", "u", "{", "*", "}">>, <<"/", "u", "/", "{", "a", "}", "/", "x">> }
RequestPaths == { <<"/", "u">>, <<"/", "u", "/", "7">>, <<"/", "{", "b", "}", "/", "x">>, <<"/", "u", "/", "7", "/", "x">>, <<"/", "v">> }
ProxyUrls == { <<"h">>, <<"h", "/">>, <<"h", "/", "{", "a", "}">>, <<"h", "/", "{", "a", "}", "/", "{", "b", "}">>, <<"h", "/", "{", "c", "}">>, <<"h", "{", "*", "}">> }
QueryStrings == { << >>, <<"q">> }

\* path_params of a request: what the router extracted; the top-level PROXY
\* strategy passes the service's path as mock_path, a proxy branch of a
\* CONDITIONAL service passes the request path
UrlCalls ==
    { [op |-> "url", proxy_url |-> u, mock_path |-> m, request_path |-> p,
       path_params |-> extract_parameters(t, p).params, query_string |-> q] :
         <<u, t, m, p, q>> \in
           { x \in ProxyUrls \X MockPaths \X (MockPaths \cup RequestPaths)
                    \X RequestPaths \X QueryStrings :
               x[3] \in {x[2], x[4]} } }

BuildProxyUrl ==
    /\ call.op = "url"
    /\ ret = NoRet
    /\ ret' = [op |-> "url",
               url |-> build_proxy_url(call.proxy_url, call.mock_path, call.request_path,
                                       call.path_params, call.query_string)]
    /\ UNCHANGED <<gateway, call, logdir>>

InitUrl == InitOther /\ call \in UrlCalls /\ ret = NoRet /\ logdir = << >>

SpecUrl == InitUrl /\ [][BuildProxyUrl]_vars

ParamValue(path_params, name) ==
    LET i == CHOOSE i \in 1..Len(path_params) : path_params[i][1] = name
    IN  path_params[i][2]

\* every placeholder of url whose name is in path_params replaced by its
\* value, in one pass over url
RECURSIVE Substituted(_, _)
Substituted(url, path_params) ==
    IF url = << >> THEN << >>
    ELSE IF \E i \in 1..Len(path_params) : StartsWith(url, Placeholder(path_params[i][1]))
    THEN LET i == CHOOSE i \in 1..Len(path_params) :
                     StartsWith(url, Placeholder(path_params[i][1]))
         IN  path_params[i][2]
             \o Substituted(SubSeq(url, Len(path_params[i][1]) + 3, Len(url)), path_params)
    ELSE <<Head(url)>> \o Substituted(Tail(url), path_params)

\* C14: when proxy_url has a placeholder of a name in path_params, the
\* target is proxy_url with each such placeholder replaced by the value of
\* its parameter, nothing of the request path appended, and "?query"
\* appended exactly when the query string is not empty.
C14_PlaceholderUrl ==
    (ret # NoRet /\ call.op = "url" /\ proxy_has_params(call.proxy_url, call.path_params)) =>
        ret.url = WithQuery(Substituted(call.proxy_url, call.path_params), call.query_string)

\* the text of request_path after its longest prefix that mock_path matches
HasMatchedPrefix(mock_path, request_path) ==
    \E k \in 0..Len(request_path) :
        extract_parameters(mock_path, SubSeq(request_path, 1, k)).matched
SuffixAfter(mock_path, request_path) ==
    LET ok(k) == extract_parameters(mock_path, SubSeq(request_path, 1, k)).matched
        k == CHOOSE k \in 0..Len(request_path) :
                 ok(k) /\ \A k2 \in (k + 1)..Len(request_path) : ~ok(k2)
        rest == SubSeq(request_path, k + 1, Len(request_path))
    IN  IF rest = << >> \/ Head(rest) = "/" THEN rest ELSE <<"/">> \o rest

\* C15: when proxy_url has no placeholder of a name in path_params, the
\* target is proxy_url without trailing "/", followed by nothing when the
\* request path is the mock path and else by only what follows the mock
\* path in the request path, also when the mock path is a template; then
\* "?query" when the query string is not empty.
C15_PlainUrl ==
    (/\ ret # NoRet /\ call.op = "url"
     /\ ~proxy_has_params(call.proxy_url, call.path_params)
     /\ (call.request_path = call.mock_path
            \/ HasMatchedPrefix(call.mock_path, call.request_path))) =>
        ret.url = WithQuery(RStrip(call.proxy_url, {"/"})
                            \o (IF call.request_path = call.mock_path THEN << >>
                                ELSE SuffixAfter(call.mock_path, call.request_path)),
                            call.query_string)

-----------------------------------------------------------------------------
(* utils/path_parser.py: validation and the match of a path                *)

MaxPathLen == 4       \* characters of a request path

\* re.findall(r'{([^}]+)}', path_pattern)
RECURSIVE extract_parameter_names(_)
extract_parameter_names(s) ==
    IF s = << >> THEN << >>
    ELSE IF Head(s) = "{" /\ NextClose(s, 2) > 2
         THEN <<SubSeq(s, 2, NextClose(s, 2) - 1)>>
              \o extract_parameter_names(SubSeq(s, NextClose(s, 2) + 1, Len(s)))
    ELSE extract_parameter_names(Tail(s))

\* re.match(r'^[a-zA-Z_][a-zA-Z0-9_]*$', param): "$" also matches before a
\* final newline
ReIdentifier(param) ==
    LET name == IF param # << >> /\ param[Len(param)] = "\n"
                THEN SubSeq(param, 1, Len(param) - 1) ELSE param
    IN  /\ name # << >>
        /\ name[1] \in AsciiLetters \cup {"_"}
        /\ \A i \in 2..Len(name) : name[i] \in AsciiLetters \cup Digits \cup {"_"}

validate_path_pattern(path_pattern) ==
    LET params == extract_parameter_names(path_pattern)
    IN  /\ path_pattern # << >>
        /\ StartsWith(path_pattern, <<"/">>)
        /\ \A i, j \in 1..Len(params) : params[i] = params[j] => i = j
        /\ \A i \in 1..Len(params) :
              /\ Strip(params[i], WhiteSpace) # << >>
              /\ IF params[i] = <<"*">> THEN EndsWith(path_pattern, WILDCARD)
                 ELSE ReIdentifier(params[i])

PathTemplates ==
    { <<"/", "u">>, <<"/", "u", "/", "{", "a", "}">>, <<"/", "{", "a", "}", "/", "{", "b", "}">>, <<"/", "u", "{", "*", "}">>, <<"/", "{", "a", "}", "/", "{", "*", "}">>, <<"/", "{", "a", "}", "/", "{", "a", "}">>, <<"/", "{", "*", "}", "/", "u">>,
      <<"/", "u", "/", "{", "1", "}">>, <<"u">>, <<"/", "u", "/", "{", "a", "\n", "}">>, <<"/", "{", "a", "}">>,
      <<"/", "{", "ñ", "}">>, <<"/", "{", "a", ">", "u", "}">> }
PathChars == {"/", "u", "7", "\n", ">"}
ActualPaths == UNION {[1..n -> PathChars] : n \in 0..MaxPathLen}

PathCalls == [op : {"match"}, path_pattern : PathTemplates, actual_path : ActualPaths]

ExtractParameters ==
    /\ call.op = "match"
    /\ ret = NoRet
    /\ ret' = [op |-> "match", valid |-> validate_path_pattern(call.path_pattern),
               result |-> extract_parameters_call(call.path_pattern, call.actual_path)]
    /\ UNCHANGED <<gateway, call, logdir>>

InitPath == InitOther /\ call \in PathCalls /\ ret = NoRet /\ logdir = << >>

SpecPath == InitPath /\ [][ExtractParameters]_vars

SubStrings(p) == {SubSeq(p, i, j) : i \in 1..(Len(p) + 1), j \in 0..Len(p)}

\* params gives every placeholder of template a value of the right shape
\* and template with the values in place of the placeholders is path
RoundTrip(template, params, path) ==
    /\ Len(params) = Len(extract_parameter_names(template))
    /\ \A i \in 1..Len(params) :
          /\ params[i][1] = extract_parameter_names(template)[i]
          /\ params[i][1] # <<"*">> =>
                params[i][2] # << >> /\ ~Contains(params[i][2], <<"/">>)
    /\ Substituted(template, params) = path

\* C16: for a template that validation accepts and any path, the match
\* returns params exactly when some params round-trip the template to the
\* path, and the params it returns are such ones; without placeholders
\* this is equality of template and path.
C16_MatchRoundTrip ==
    (ret # NoRet /\ call.op = "match" /\ ret.valid) =>
        LET T == call.path_pattern
            P == call.actual_path
            names == extract_parameter_names(T)
        IN  /\ ~ret.result.raised
            /\ ret.result.matched => RoundTrip(T, ret.result.params, P)
            /\ ~ret.result.matched =>
                  \A values \in [1..Len(names) -> SubStrings(P)] :
                      ~RoundTrip(T, [i \in 1..Len(names) |-> <<names[i], values[i]>>], P)

-----------------------------------------------------------------------------
(* schemas/mock_service.py and services/mock_service.py: create and update *)

MaxStored == 1        \* rows the table may hold

Unset == <<"unset">>  \* a field the request body does not have
NoneValue == <<"None">>  \* the value of a field the request body sets to null
NoneStrategy == "None"   \* the same for the strategy, whose values are names

\* A row of the table: the name and the columns of the strategies (the
\* other columns are left out).  In a nullable column
\* NULL and the empty string are both NoStr, a list column is a sequence
\* (NULL: << >>).
StoredService(id, name, path, strategy, proxy_url, static_response, code, responses) ==
    [id |-> id, name |-> name, path |-> path, strategy |-> strategy,
     proxy_url |-> proxy_url, static_response |-> static_response,
     condition_code |-> code, conditional_responses |-> responses]

\* Optional[...] = None: the value of a field that is not set
OrNone(v) == IF v = Unset THEN NoStr ELSE v

\* MockServiceBase.validate_path / MockServiceUpdate.validate_path
schema_path(v) == IF ~StartsWith(v, <<"/">>) THEN <<"/">> \o v ELSE v

\* @validator of a strategy field of MockServiceCreate: runs only for a
\* field that is set, and raises when the strategy needs it and `not v`
StrategyValidatorFails(data, field, strategy) ==
    data[field] # Unset /\ data.strategy = strategy /\ data[field] = NoStr

\* MockServiceCreate(**body) raises no ValidationError: name and path are
\* required and have min_length=1 (one that is missing, None or '' is
\* refused before validate_path sees it), then the validators of the
\* strategies
MockServiceCreate_valid(data) ==
    /\ data.name # NoStr
    /\ data.path # NoStr
    /\ ~StrategyValidatorFails(data, "proxy_url", "proxy")
    /\ ~StrategyValidatorFails(data, "static_response", "static")
    /\ ~StrategyValidatorFails(data, "condition_code", "conditional")

Stored(table) == [op |-> "repo", status |-> "stored", table |-> table]
Rejected(table, why) == [op |-> "repo", status |-> why, table |-> table]

\* select(MockService).where(MockService.id == service_id) finds a row
HasId(table, service_id) == \E i \in 1..Len(table) : table[i].id = service_id

\* The id SQLite gives a new row of a table whose key is INTEGER PRIMARY
\* KEY: one more than the largest id in the table, 1 for an empty table
NewId(table) ==
    IF table = << >> THEN 1
    ELSE 1 + CHOOSE m \in {table[i].id : i \in 1..Len(table)} :
                 \A i \in 1..Len(table) : table[i].id <= m

\* create_mock_service through its commit: the table with the new row
create_mock_service(table, data) ==
    IF ~MockServiceCreate_valid(data) THEN Rejected(table, "validation error")
    ELSE IF ~validate_path_pattern(schema_path(data.path))
    THEN Rejected(table, "ValueError")
    ELSE Stored(Append(table,
             StoredService(NewId(table), data.name, schema_path(data.path), data.strategy,
                           OrNone(data.proxy_url), OrNone(data.static_response),
                           OrNone(data.condition_code),
                           OrNone(data.conditional_responses))))

\* update(MockService).values(**update_data): the fields that are set
Updated(row, data) ==
    [row EXCEPT
       !.name = IF data.name = Unset THEN @ ELSE data.name,
       !.path = IF data.path = Unset THEN @ ELSE schema_path(data.path),
       !.strategy = IF data.strategy = "unset" THEN @ ELSE data.strategy,
       !.proxy_url = IF data.proxy_url = Unset THEN @ ELSE data.proxy_url,
       !.static_response = IF data.static_response = Unset THEN @ ELSE data.static_response,
       !.condition_code = IF data.condition_code = Unset THEN @ ELSE data.condition_code,
       !.conditional_responses =
           IF data.conditional_responses = Unset THEN @ ELSE data.conditional_responses]

\* update_data is empty: mock_data.dict(exclude_unset=True) has no field
NothingSet(data) ==
    /\ data.name = Unset
    /\ data.path = Unset /\ data.strategy = "unset" /\ data.proxy_url = Unset
    /\ data.static_response = Unset /\ data.condition_code = Unset
    /\ data.conditional_responses = Unset

\* MockServiceUpdate(**body) raises no ValidationError: a name or a path
\* that is a string has min_length=1, so '' is refused; null is accepted
\* and no validator sees it
MockServiceUpdate_valid(data) == data.name # NoStr /\ data.path # NoStr

\* update_mock_service up to its UPDATE statement, after the schema of the
\* request body: the row is looked up, a path that is not None is
\* validated, and with nothing to write the row read is returned;
\* "writing" says that the UPDATE is to be awaited
update_mock_service(table, service_id, data) ==
    IF ~MockServiceUpdate_valid(data) THEN Rejected(table, "validation error")
    ELSE IF ~HasId(table, service_id) THEN Rejected(table, "not found")
    ELSE IF /\ data.path \notin {Unset, NoneValue}
            /\ ~validate_path_pattern(schema_path(data.path))
    THEN Rejected(table, "ValueError")
    ELSE IF NothingSet(data) THEN Stored(table)
    ELSE Rejected(table, "writing")

\* update(MockService).where(MockService.id == service_id).values(...) and
\* the commit, on the table as it is by then: SET name = NULL, path = NULL
\* or strategy = NULL on a row is refused by the NOT NULL column and
\* nothing is written; without the row the UPDATE changes nothing
SetsNull(data) ==
    data.name = NoneValue \/ data.path = NoneValue \/ data.strategy = NoneStrategy

update_execute(table, service_id, data) ==
    IF HasId(table, service_id) /\ SetsNull(data)
    THEN Rejected(table, "IntegrityError")
    ELSE Stored([i \in 1..Len(table) |->
                    IF table[i].id = service_id THEN Updated(table[i], data)
                    ELSE table[i]])

\* self.db.refresh(mock_service): raises when the row is not in the table
refresh(table, service_id) ==
    IF ~HasId(table, service_id) THEN Rejected(table, "refresh error")
    ELSE Stored(table)

\* delete(MockService).where(MockService.id == service_id); rowcount > 0
delete_mock_service(table, service_id) ==
    IF ~HasId(table, service_id) THEN Rejected(table, "not found")
    ELSE [op |-> "repo", status |-> "deleted",
          table |-> SelectSeq(table, LAMBDA row : row.id # service_id)]

Strategies == {"static", "proxy", "conditional"}
OneResponse == <<"r">>        \* a list of one conditional response

CreatePaths == { << >>, <<"/", "u">>, <<"u">>, <<"/", "{", "a", "}", "/", "{", "a", "}">>, <<"/", "u", "/", "{", "a", "\n", "}">>, <<"/", "{", "*", "}", "/", "u">> }

\* the name of every POST is the same valid one
CreateInputs ==
    [name : {<<"s">>}, path : CreatePaths, strategy : Strategies,
     proxy_url : {Unset, <<"h">>}, static_response : {Unset, <<"b">>},
     condition_code : {Unset, <<"c">>},
     conditional_responses : {Unset, << >>, OneResponse}]
    \cup [name : {<<"s">>}, path : CreatePaths, strategy : Strategies,
          proxy_url : {NoStr}, static_response : {NoStr}, condition_code : {NoStr},
          conditional_responses : {Unset}]

UpdateInputs ==
    [name : {Unset, NoneValue, << >>, <<"t">>},
     path : {Unset, NoneValue, << >>, <<"/", "v">>, <<"/", "{", "a", "}", "/", "{", "a", "}">>, <<"/", "u", "/", "{", "a", "\n", "}">>}, strategy : Strategies \cup {"unset", NoneStrategy},
     proxy_url : {Unset}, static_response : {Unset, NoStr},
     condition_code : {Unset}, conditional_responses : {Unset, << >>}]

\* The operation in flight: an update between its SELECT and its UPDATE,
\* or a create or an update between its commit and its refresh
PendingUpdate(service_id, data) == [op |-> "update", service_id |-> service_id, data |-> data]
PendingRefresh(service_id) == [op |-> "refresh", service_id |-> service_id]

\* ret is the answer the step gives, NoRet when it gives none.

\* POST /api/mock-services/ up to the refresh it awaits: the row is
\* committed; other requests are served before the refresh runs
CreateMockService(data) ==
    /\ Len(services) < MaxStored
    /\ LET r == create_mock_service(services, data)
       IN  IF r.status = "stored"
           THEN /\ call.op = "none"
                /\ services' = r.table
                /\ call' = PendingRefresh(NewId(services))
                /\ ret' = NoRet
           ELSE services' = services /\ call' = call /\ ret' = r
    /\ UNCHANGED <<active_connections, service_connections, ws, sendq, received, logfile,
                   disk_ok, now, published, snaps, attempts, send_failed, req, logdir>>

\* PUT /api/mock-services/{id} up to the UPDATE it awaits; other requests
\* are served before the UPDATE runs
UpdateMockService(service_id, data) ==
    /\ call.op = "none"
    /\ LET r == update_mock_service(services, service_id, data)
       IN  IF r.status = "writing"
           THEN call' = PendingUpdate(service_id, data) /\ ret' = NoRet
           ELSE call' = call /\ ret' = r
    /\ UNCHANGED <<services, active_connections, service_connections, ws, sendq, received,
                   logfile, disk_ok, now, published, snaps, attempts, send_failed, req, logdir>>

\* The UPDATE and the commit of the update in flight; other requests are
\* served before the refresh runs
UpdateMockServiceWrite ==
    /\ call.op = "update"
    /\ LET r == update_execute(services, call.service_id, call.data)
       IN  IF r.status = "stored"
           THEN /\ services' = r.table
                /\ call' = PendingRefresh(call.service_id)
                /\ ret' = NoRet
           ELSE services' = services /\ call' = NoCall /\ ret' = r
    /\ UNCHANGED <<active_connections, service_connections, ws, sendq, received, logfile,
                   disk_ok, now, published, snaps, attempts, send_failed, req, logdir>>

\* The refresh of the create or the update in flight, and its answer
RefreshMockService ==
    /\ call.op = "refresh"
    /\ ret' = refresh(services, call.service_id)
    /\ call' = NoCall
    /\ UNCHANGED <<services, active_connections, service_connections, ws, sendq, received,
                   logfile, disk_ok, now, published, snaps, attempts, send_failed, req, logdir>>

\* DELETE /api/mock-services/{id}
DeleteMockService(service_id) ==
    /\ ret' = delete_mock_service(services, service_id)
    /\ services' = ret'.table
    /\ UNCHANGED <<active_connections, service_connections, ws, sendq, received, logfile,
                   disk_ok, now, published, snaps, attempts, send_failed, req, call, logdir>>

\* The table is empty, or holds the second of two rows created of which the
\* first has been deleted
InitialTables ==
    { << >>, << StoredService(2, <<"s">>, <<"/", "u">>, "static", NoStr, <<"b">>, NoStr, << >>) >> }

InitRepo ==
    /\ services \in InitialTables
    /\ active_connections = << >>
    /\ service_connections = << >>
    /\ ws = [c \in Conns |-> [st |-> "new", service_id |-> None]]
    /\ sendq = << >>
    /\ received = [c \in Conns |-> << >>]
    /\ logfile = << >>
    /\ disk_ok = TRUE
    /\ now = 0
    /\ published = << >>
    /\ snaps = {}
    /\ attempts = {}
    /\ send_failed = {}
    /\ req = [r \in Requests |-> ReqInit]
    /\ call = NoCall /\ ret = NoRet /\ logdir = << >>

\* the ids a request may name: those the table can hold and one more
ServiceIds == 1..(MaxStored + 1)

NextRepo ==
    \/ \E data \in CreateInputs : CreateMockService(data)
    \/ \E service_id \in ServiceIds, data \in UpdateInputs :
           UpdateMockService(service_id, data)
    \/ UpdateMockServiceWrite
    \/ RefreshMockService
    \/ \E service_id \in ServiceIds : DeleteMockService(service_id)

SpecRepo == InitRepo /\ [][NextRepo]_vars

StrategyRequirement(row) ==
    /\ row.strategy = "static" => row.static_response # NoStr
    /\ row.strategy = "proxy" => row.proxy_url # NoStr
    /\ row.strategy = "conditional" =>
          row.condition_code # NoStr /\ Len(row.conditional_responses) >= 1

\* C17: after any sequence of creates and updates every stored service has
\* what its strategy needs: a static body, a proxy URL, or condition code
\* with at least one conditional response.
C17_StrategyRequirement ==
    \A i \in 1..Len(services) : StrategyRequirement(services[i])

\* a name of the shape [A-Za-z_][A-Za-z0-9_]*
IdentifierShaped(name) ==
    /\ name # << >>
    /\ name[1] \in AsciiLetters \cup {"_"}
    /\ \A i \in 2..Len(name) : name[i] \in AsciiLetters \cup Digits \cup {"_"}

\* a template as the claim describes a valid one
ValidTemplate(path) ==
    LET names == extract_parameter_names(path)
    IN  /\ StartsWith(path, <<"/">>)
        /\ \A i, j \in 1..Len(names) : names[i] = names[j] => i = j
        /\ \A i \in 1..Len(names) :
              IF names[i] = <<"*">> THEN EndsWith(path, WILDCARD)
              ELSE IdentifierShaped(names[i])

\* C18: after any sequence of creates and updates every stored service has
\* a valid path template, and an operation that fails leaves the stored
\* services as they were.
C18_ValidTemplates ==
    [][/\ \A i \in 1..Len(services') : ValidTemplate(services'[i].path)
       /\ (ret' # NoRet /\ ret'.status \notin {"stored", "deleted"}) =>
              services' = services]_vars

-----------------------------------------------------------------------------
(* services/file_logger.py: rotation and reading of the log files          *)

MaxWrites  == 4       \* records written
MaxTime    == 4       \* rotation intervals that pass
MaxBackups == 2       \* largest LOG_BACKUP_COUNT

\* The log directory is a function from the names of the files that exist to
\* their lines.  requests.log is Numbered(0), requests.log.k is Numbered(k),
\* and requests.log.<stamp of interval t> is Dated(t).
Numbered(k) == <<"n", k>>
Dated(t) == <<"d", t>>
main_log_file == Numbered(0)

Exists(dir, name) == name \in DOMAIN dir
Remove(dir, name) == [n \in DOMAIN dir \ {name} |-> dir[n]]
Rename(dir, sfn, dfn) ==
    [n \in (DOMAIN dir \ {sfn}) \cup {dfn} |-> IF n = dfn THEN dir[sfn] ELSE dir[n]]
\* open(..., 'a'): creates the file when it is not there
Open(dir, name) ==
    IF Exists(dir, name) THEN dir
    ELSE [n \in DOMAIN dir \cup {name} |-> IF n = name THEN << >> ELSE dir[n]]

\* A line of a log file: the JSON of a record as the writer leaves it, or
\* one of: a blank line, text that is not JSON (json.JSONDecodeError), JSON
\* that lacks fields of RequestLogEntry (TypeError), bytes that are not UTF-8
Line(entry) == [kind |-> "record", entry |-> entry]
BadLine(kind) == [kind |-> kind, entry |-> RequestLogEntry(<<0, 0>>, None, 0, "", 0)]
BlankLine == BadLine("blank")
NotJson == BadLine("not json")
MissingFields == BadLine("missing fields")
NotUtf8 == BadLine("not utf-8")

\* json.dumps(..., ensure_ascii=False) of a character of a string: the
\* quote, the backslash and the control characters with a short escape take
\* two characters, the other control characters below U+0020 six (\u00XX),
\* every other character stands for itself
JsonEscapedShort == {"\"", "\\", "\n", "\r", "\t", "\f", ""}
JsonEscapedLong ==
    {"", "", "", "", "", "", "", "", "", "", "", "", "", "", "", "",
     "", "", "", "", "", "", "", "", "", ""}
JsonChars(c) == IF c \in JsonEscapedShort THEN 2 ELSE IF c \in JsonEscapedLong THEN 6 ELSE 1

\* The characters of the model's strings outside ASCII, U+0080..U+00FF and
\* the images under upper(): UTF-8 writes each of them in two bytes
NonAscii ==
    {"", "", "", "", "", "", "", "", "", "", "", "", "", "", "", "",
     "", "", "", "", "", "", "", "", "", "", "", "", "", "", "", "",
     " ", "¡", "¢", "£", "¤", "¥", "¦", "§", "¨", "©", "ª", "«", "¬", "­", "®", "¯",
     "°", "±", "²", "³", "´", "µ", "¶", "·", "¸", "¹", "º", "»", "¼", "½", "¾", "¿",
     "À", "Á", "Â", "Ã", "Ä", "Å", "Æ", "Ç", "È", "É", "Ê", "Ë", "Ì", "Í", "Î", "Ï",
     "Ð", "Ñ", "Ò", "Ó", "Ô", "Õ", "Ö", "×", "Ø", "Ù", "Ú", "Û", "Ü", "Ý", "Þ", "ß",
     "à", "á", "â", "ã", "ä", "å", "æ", "ç", "è", "é", "ê", "ë", "ì", "í", "î", "ï",
     "ð", "ñ", "ò", "ó", "ô", "õ", "ö", "÷", "ø", "ù", "ú", "û", "ü", "ý", "þ", "ÿ",
     "Μ", "μ", "U+0178"}
Utf8Bytes(c) == IF c \in NonAscii THEN 2 ELSE JsonChars(c)

RECURSIVE SumOver(_, _)
SumOver(F(_), str) == IF str = << >> THEN 0 ELSE F(Head(str)) + SumOver(F, Tail(str))

\* len(msg) of msg = "%s\n" % json.dumps(...), in characters, and the bytes
\* the stream writes for it (encoding='utf-8').  The records differ in their
\* response body; the JSON text around it is left out.
LineLen(entry) == SumOver(JsonChars, entry.response_body) + 1
LineBytes(entry) == SumOver(Utf8Bytes, entry.response_body) + 1

\* stream.tell() at the end of the file: its size in bytes
RECURSIVE FileSize(_)
FileSize(lines) ==
    IF lines = << >> THEN 0 ELSE LineBytes(Head(lines).entry) + FileSize(Tail(lines))

\* os.path.getmtime: the time of the last write, which is the time of the
\* record written last; a file without a line is the requests.log that
\* _setup_logger opened at time 0 and no record was written to
Mtime(lines) == IF lines = << >> THEN 0 ELSE lines[Len(lines)].entry.timestamp

\* FileLogger._setup_logger: the handler, a TimedRotatingFileHandler when
\* rotation_time is set and a RotatingFileHandler otherwise.  rolls_empty
\* and keeps_rolled are the CPython the program runs on: up to 3.11 the
\* size handler's shouldRollover rolls an empty file over, later versions
\* (gh-116263) never do; up to 3.12 the timed handler's doRollover replaces
\* an archive that has the name of the new one, 3.13 keeps it and returns
Handler(rotation_time, max_bytes, backup_count, rollover_at, rolls_empty, keeps_rolled) ==
    [op |-> "logger", rotation_time |-> rotation_time, max_bytes |-> max_bytes,
     backup_count |-> backup_count, rollover_at |-> rollover_at,
     rolls_empty |-> rolls_empty, keeps_rolled |-> keeps_rolled]

\* RotatingFileHandler.shouldRollover compares stream.tell() + len(msg),
\* bytes plus characters, with maxBytes;
\* TimedRotatingFileHandler.shouldRollover compares the time
shouldRollover(handler, dir, entry, t) ==
    IF handler.rotation_time # ""
    THEN t >= handler.rollover_at
    ELSE /\ handler.max_bytes > 0
         /\ handler.rolls_empty \/ FileSize(dir[main_log_file]) > 0
         /\ FileSize(dir[main_log_file]) + LineLen(entry) >= handler.max_bytes

\* RotatingFileHandler.doRollover: for i in range(backupCount - 1, 0, -1)
RECURSIVE ShiftArchives(_, _)
ShiftArchives(dir, i) ==
    IF i < 1 THEN dir
    ELSE ShiftArchives(
             IF Exists(dir, Numbered(i))
             THEN Rename(IF Exists(dir, Numbered(i + 1)) THEN Remove(dir, Numbered(i + 1))
                         ELSE dir,
                         Numbered(i), Numbered(i + 1))
             ELSE dir,
             i - 1)

doRolloverSize(handler, dir) ==
    IF handler.backup_count > 0
    THEN LET shifted == ShiftArchives(dir, handler.backup_count - 1)
             cleared == IF Exists(shifted, Numbered(1)) THEN Remove(shifted, Numbered(1))
                        ELSE shifted
         IN  Open(Rename(cleared, main_log_file, Numbered(1)), main_log_file)
    ELSE dir

\* TimedRotatingFileHandler.getFilesToDelete: all but the backupCount newest
DatedFiles(dir) == {n \in DOMAIN dir : n[1] = "d"}
getFilesToDelete(handler, dir) ==
    IF Cardinality(DatedFiles(dir)) < handler.backup_count THEN {}
    ELSE {n \in DatedFiles(dir) :
             Cardinality({m \in DatedFiles(dir) : m[2] > n[2]}) >= handler.backup_count}

\* TimedRotatingFileHandler.doRollover finds the archive of the interval
\* there and returns ("Already rolled over", CPython 3.13)
AlreadyRolled(handler, dir) ==
    handler.keeps_rolled /\ Exists(dir, Dated(handler.rollover_at - 1))

doRolloverTimed(handler, dir) ==
    LET dfn == Dated(handler.rollover_at - 1)
        cleared == IF Exists(dir, dfn) THEN Remove(dir, dfn) ELSE dir
        rotated == Rename(cleared, main_log_file, dfn)
        kept == IF handler.backup_count > 0
                THEN [n \in DOMAIN rotated \ getFilesToDelete(handler, rotated) |-> rotated[n]]
                ELSE rotated
    IN  IF AlreadyRolled(handler, dir) THEN dir ELSE Open(kept, main_log_file)

doRollover(handler, dir) ==
    IF handler.rotation_time # "" THEN doRolloverTimed(handler, dir)
    ELSE doRolloverSize(handler, dir)

\* handler.emit(record): rollover when due, then the line goes to requests.log
emit(handler, dir, entry, t) ==
    LET rolled == IF shouldRollover(handler, dir, entry, t) THEN doRollover(handler, dir)
                  ELSE dir
    IN  [rolled EXCEPT ![main_log_file] = Append(@, Line(entry))]

\* self.rolloverAt after emit
rolloverAt(handler, dir, entry, t) ==
    IF /\ handler.rotation_time # "" /\ shouldRollover(handler, dir, entry, t)
       /\ ~AlreadyRolled(handler, dir)
    THEN t + 1 ELSE handler.rollover_at

\* FileLogger._get_log_files
RECURSIVE ArchiveFiles(_, _, _)
ArchiveFiles(dir, i, backup_count) ==
    IF i > backup_count THEN << >>
    ELSE (IF Exists(dir, Numbered(i)) THEN <<Numbered(i)>> ELSE << >>)
         \o ArchiveFiles(dir, i + 1, backup_count)
get_log_files(handler, dir) ==
    (IF Exists(dir, main_log_file) THEN <<main_log_file>> ELSE << >>)
    \o ArchiveFiles(dir, 1, handler.backup_count)

RECURSIVE ReadFiles(_, _)
ReadFiles(dir, log_files) ==
    IF log_files = << >> THEN << >>
    ELSE dir[Head(log_files)] \o ReadFiles(dir, Tail(log_files))

\* the lines that json.loads and RequestLogEntry(**log_data) take
RECURSIVE ParsedLines(_)
ParsedLines(lines) ==
    IF lines = << >> THEN << >>
    ELSE (IF Head(lines).kind = "record" THEN <<Head(lines).entry>> ELSE << >>)
         \o ParsedLines(Tail(lines))

\* FileLogger.get_logs over the files of the directory
get_logs_dir(handler, dir, service_id, skip, limit) ==
    get_logs(ParsedLines(ReadFiles(dir, get_log_files(handler, dir))), service_id, skip, limit)

\* archives older than 30 days are removed by the cleanup; the unit of time
\* is the rotation interval of the timed handler, 240 hours
ThirtyDays == 3

\* bodies whose lines take 2, 6 and 5 bytes (the last one in 3 characters)
LogBodies == {<<"a">>, <<"b", "b", "b", "b", "b">>, <<"é", "é">>}
LogMaxBytes == {6, 8}
LogHandlers ==
    {Handler("", m, n, 0, e, FALSE) : m \in LogMaxBytes, n \in 0..MaxBackups, e \in BOOLEAN}
    \cup {Handler("240h", 6, n, 1, TRUE, k) : n \in 0..MaxBackups, k \in BOOLEAN}

\* FileLogger.log_request; ret.written lists the entries it has returned
LogRequest(body) ==
    /\ call.op = "logger"
    /\ Len(ret.written) < MaxWrites
    /\ LET entry == RequestLogEntry(<<Len(ret.written) + 1, 0>>, 1, 200, body, now)
       IN  /\ logdir' = emit(call, logdir, entry, now)
           /\ call' = [call EXCEPT !.rollover_at = rolloverAt(call, logdir, entry, now)]
           /\ ret' = [ret EXCEPT !.written = Append(@, entry)]
    /\ UNCHANGED <<services, active_connections, service_connections, ws, sendq, received,
                   logfile, disk_ok, published, snaps, attempts, send_failed, req, now>>

\* POST /api/logs/cleanup: every file *.log.* of the directory, a numbered
\* or a dated archive, whose mtime is more than 30 days back is removed;
\* requests.log stays
cleanup_old_logs(dir, t) ==
    [n \in {m \in DOMAIN dir : m = main_log_file \/ ~(Mtime(dir[m]) < t - ThirtyDays)}
        |-> dir[n]]

CleanupOldLogs ==
    /\ call.op = "logger"
    /\ logdir' = cleanup_old_logs(logdir, now)
    /\ UNCHANGED <<gateway, call, ret>>

\* a rotation interval passes
Tick ==
    /\ call.op = "logger"
    /\ now < MaxTime
    /\ now' = now + 1
    /\ UNCHANGED <<services, active_connections, service_connections, ws, sendq, received,
                   logfile, disk_ok, published, snaps, attempts, send_failed, req,
                   call, ret, logdir>>

InitLog ==
    /\ InitOther
    /\ call \in LogHandlers
    /\ ret = [op |-> "log", written |-> << >>]
    /\ logdir = Open(<< >>, main_log_file)

NextLog == (\E body \in LogBodies : LogRequest(body)) \/ Tick \/ CleanupOldLogs

SpecLog == InitLog /\ [][NextLog]_vars

\* What a write under size rotation leaves: only requests.log and archives
\* .1 .. .N exist, and either the record was appended and requests.log does
\* not exceed max_bytes bytes, or the file was rotated first: the record is alone
\* in the new requests.log, the old requests.log is archive .1, every
\* archive .k below N is archive .k+1 and what was archive .N is gone.
SizeRotationStep ==
    LET N == call.backup_count
        entry == ret'.written[Len(ret'.written)]
        appended == /\ logdir' = [logdir EXCEPT ![main_log_file] = Append(@, Line(entry))]
                    /\ FileSize(logdir'[main_log_file]) <= call.max_bytes
        rotated == /\ logdir'[main_log_file] = <<Line(entry)>>
                   /\ N >= 1 => /\ Exists(logdir', Numbered(1))
                                /\ logdir'[Numbered(1)] = logdir[main_log_file]
                   /\ \A k \in 1..(N - 1) :
                         IF Exists(logdir, Numbered(k))
                         THEN /\ Exists(logdir', Numbered(k + 1))
                              /\ logdir'[Numbered(k + 1)] = logdir[Numbered(k)]
                         ELSE ~Exists(logdir', Numbered(k + 1))
    IN  /\ DOMAIN logdir' \subseteq {Numbered(k) : k \in 0..N}
        /\ Exists(logdir', main_log_file)
        /\ appended \/ rotated

SizeWrite == call.op = "logger" /\ call.rotation_time = "" /\ ret'.written # ret.written

\* C19: under size rotation with backupCount = N the directory holds
\* requests.log and at most the archives requests.log.1 .. requests.log.N,
\* each rotation shifts .k to .k+1 and drops the oldest, and requests.log is
\* rotated before a write that would make it exceed maxBytes.
C19_SizeRotation ==
    [][SizeWrite => SizeRotationStep]_vars

OnDisk(dir, entry) == \E n \in DOMAIN dir : InList(dir[n], Line(entry))

\* C20: every record written is returned by get(no service id, skip 0,
\* limit at least the number of records) as it was written, as long as the
\* file that holds it exists, under size rotation and time rotation alike.
C20_WrittenIsReadable ==
    call.op = "logger" =>
        \A i \in 1..Len(ret.written) :
            OnDisk(logdir, ret.written[i]) =>
                InList(get_logs_dir(call, logdir, None, 0, GetLimit), ret.written[i])

-----------------------------------------------------------------------------
(* services/file_logger.py: get_logs over files with malformed lines       *)

MaxLines == 2         \* lines of requests.log

\* `for line in f` decodes the file as UTF-8: UnicodeDecodeError is neither
\* caught by `except (json.JSONDecodeError, TypeError)` nor by
\* `except (IOError, OSError)`
GetRaised == [op |-> "get", raised |-> TRUE, logs |-> << >>]
GetReturned(logs) == [op |-> "get", raised |-> FALSE, logs |-> logs]
get_logs_call(handler, dir, service_id, skip, limit) ==
    IF InList(ReadFiles(dir, get_log_files(handler, dir)), NotUtf8) THEN GetRaised
    ELSE GetReturned(get_logs_dir(handler, dir, service_id, skip, limit))

LogLines ==
    { Line(RequestLogEntry(<<1, 0>>, 1, 200, "a", 1)),
      Line(RequestLogEntry(<<2, 0>>, 2, 200, "a", 2)),
      Line(RequestLogEntry(<<3, 0>>, 1, 404, "a", 2)),
      Line(RequestLogEntry(<<4, 0>>, None, 404, "a", 3)),
      BlankLine, NotJson, MissingFields, NotUtf8 }

\* requests.log with up to MaxLines lines, requests.log.1 and requests.log.2
\* absent or short
NoFile == <<BadLine("no file")>>
LogDirs ==
    { [n \in {Numbered(0)} \cup {Numbered(1) : x \in {a} \ {NoFile}}
                           \cup {Numbered(2) : x \in {b} \ {NoFile}} |->
          IF n = Numbered(0) THEN m ELSE IF n = Numbered(1) THEN a ELSE b] :
        m \in UNION {[1..k -> LogLines] : k \in 0..MaxLines},
        a \in {NoFile} \cup UNION {[1..k -> LogLines] : k \in 0..1},
        b \in {NoFile, <<Line(RequestLogEntry(<<5, 0>>, 1, 200, "a", 0))>>} }

GetCalls ==
    [op : {"get"}, backup_count : {1}, service_id : {None, 1}, skip : {0, 1},
     limit : {1, 2, GetLimit}]

GetLogs ==
    /\ call.op = "get"
    /\ ret = NoRet
    /\ ret' = get_logs_call(call, logdir, call.service_id, call.skip, call.limit)
    /\ UNCHANGED <<gateway, call, logdir>>

InitGet == InitOther /\ call \in GetCalls /\ ret = NoRet /\ logdir \in LogDirs

SpecGet == InitGet /\ [][GetLogs]_vars

\* the places <<file, line number>> of the well-formed records that a get
\* for service_id is about
RecordPlaces(dir, backup_count, service_id) ==
    { <<n, i>> \in UNION {{n} \X (1..Len(dir[n])) : n \in DOMAIN dir} :
        /\ n \in {Numbered(k) : k \in 0..backup_count}
        /\ dir[n][i].kind = "record"
        /\ service_id = None \/ dir[n][i].entry.mock_service_id = service_id }

\* C21: get(service_id, skip, limit) returns the elements [skip, skip+limit)
\* of the well-formed records of requests.log and its numbered archives,
\* those of the service when one is given, sorted by timestamp descending;
\* a malformed line is skipped and drops no other record; the result has at
\* most limit elements.
C21_GetIsSortedSlice ==
    (ret # NoRet /\ call.op = "get") =>
        LET places == RecordPlaces(logdir, call.backup_count, call.service_id)
            n == Cardinality(places)
            rest == IF n > call.skip THEN n - call.skip ELSE 0
            m == IF rest < call.limit THEN rest ELSE call.limit
        IN  /\ ~ret.raised
            /\ Len(ret.logs) = m
            /\ \E S \in [1..n -> places] :
                  /\ \A i, j \in 1..n : S[i] = S[j] => i = j
                  /\ \A i \in 1..(n - 1) :
                        logdir[S[i][1]][S[i][2]].entry.timestamp
                            >= logdir[S[i + 1][1]][S[i + 1][2]].entry.timestamp
                  /\ \A j \in 1..m :
                        ret.logs[j] = logdir[S[call.skip + j][1]][S[call.skip + j][2]].entry

-----------------------------------------------------------------------------
(* services/file_logger.py: the id of a log record                         *)

MaxClock == 3         \* readings of the local clock, in microseconds

\* datetime.now().strftime('%Y%m%d_%H%M%S_%f'): the second and, in six
\* digits, the microsecond of the local time
log_id(t) == <<t \div 1000000, t % 1000000>>

\* FileLogger.log_request: ret.ids lists the ids of the entries in write order
LogRequestId ==
    /\ call.op = "ids"
    /\ Len(ret.ids) < MaxWrites
    /\ ret' = [ret EXCEPT !.ids = Append(@, log_id(now))]
    /\ UNCHANGED <<gateway, call, logdir>>

\* the local clock moves on by a microsecond
ClockForward ==
    /\ call.op = "ids"
    /\ now < MaxClock
    /\ now' = now + 1
    /\ UNCHANGED <<services, active_connections, service_connections, ws, sendq, received,
                   logfile, disk_ok, published, snaps, attempts, send_failed, req,
                   call, ret, logdir>>

\* the local clock is set back (time synchronisation, end of summer time)
ClockBackward ==
    /\ call.op = "ids"
    /\ now > 0
    /\ now' = now - 1
    /\ UNCHANGED <<services, active_connections, service_connections, ws, sendq, received,
                   logfile, disk_ok, published, snaps, attempts, send_failed, req,
                   call, ret, logdir>>

InitIds ==
    /\ InitOther
    /\ call = [op |-> "ids"]
    /\ ret = [op |-> "ids", ids |-> << >>]
    /\ logdir = << >>

NextIds == LogRequestId \/ ClockForward \/ ClockBackward

SpecIds == InitIds /\ [][NextIds]_vars

IdLess(a, b) == a[1] < b[1] \/ (a[1] = b[1] /\ a[2] < b[2])

\* C22: within one process the ids of the log records are pairwise distinct
\* and increase strictly in write order, also when two calls read the same
\* clock value or the local clock steps back between them.
C22_IdsIncrease ==
    call.op = "ids" =>
        \A i, j \in 1..Len(ret.ids) : i < j => IdLess(ret.ids[i], ret.ids[j])

-----------------------------------------------------------------------------
(* services/mock_processor.py: _process_response_template on its own       *)

ResponseTemplates ==
    { <<"{", "n", "}">>, <<"n", " ", "+", " ", "1">>, <<"{", "1", " ", "/", " ", "0", "}">>, <<"h", "i">>, <<" ", "{", "n", "}", " ">>,
      <<"i", "n", "t", "(", "x", ")">>, <<"{", "m", ":", " ", "n", "}">>, <<"n", "}">>,
      <<"{", "p", "a", "t", "h", "_", "p", "a", "r", "a", "m", "s", "}">> }
TemplateContexts ==
    { << <<<<"p", "a", "t", "h", "_", "p", "a", "r", "a", "m", "s">>, <<"{", "}">>>> >>,
      << <<<<"p", "a", "t", "h", "_", "p", "a", "r", "a", "m", "s">>, <<"{", "}">>>>, <<<<"n">>, <<"3">>>> >>,
      << <<<<"p", "a", "t", "h", "_", "p", "a", "r", "a", "m", "s">>, <<"{", "}">>>>, <<<<"n">>, <<"m">>>>, <<<<"m">>, <<"3">>>> >>,
      << <<<<"p", "a", "t", "h", "_", "p", "a", "r", "a", "m", "s">>, <<"{", "}">>>>, <<<<"m">>, <<"3">>>> >> }

TemplateCalls ==
    [op : {"template"}, response_template : ResponseTemplates, context : TemplateContexts,
     evaluated : {"error", <<"4">>}]

ProcessResponseTemplate ==
    /\ call.op = "template"
    /\ ret = NoRet
    /\ ret' = [op |-> "template",
               body |-> process_response_template(call.response_template, call.context,
                                                  call.evaluated)]
    /\ UNCHANGED <<gateway, call, logdir>>

InitTemplate == InitOther /\ call \in TemplateCalls /\ ret = NoRet /\ logdir = << >>

SpecTemplate == InitTemplate /\ [][ProcessResponseTemplate]_vars

\* C23: an evaluation error makes the result the unexpanded template,
\* character for character, for JSON-shaped templates as for plain ones.
C23_ErrorKeepsTemplate ==
    (ret # NoRet /\ call.op = "template" /\ call.evaluated = "error") =>
        ret.body = call.response_template

-----------------------------------------------------------------------------
(* SOAPParser.extract_soap_method on its own: every pair of a name found   *)
(* in the headers and a name found in the body, routed over a registry of  *)
(* one SOAP service.                                                       *)

\* what extract_soap_method_from_headers can return (NoStr for None or "")
HeaderMethods ==
    { NoStr, <<"A">>, <<" ", "A">>, <<"A", "d", "d">>, <<"\"", "A", "\"">>,
      <<"u", "#", "A">>, <<"A", "?", "w">>, <<"A", "d">>, <<"x", "#">>,
      <<"'", "'">>, <<"X", "_", "S", "u", "b">> }

\* (body given, what extract_soap_method_from_body returns)
BodyMethods ==
    { <<FALSE, NoStr>>, <<TRUE, NoStr>>, <<TRUE, <<"S">> >>,
      <<TRUE, <<"S", "u", "b">> >>, <<TRUE, <<"#">> >> }

SoapRegistry ==
    << MockService(1, <<"X", "_", "S", "u", "b">>, <<"/", "s">>, <<Str_POST>>, "soap", TRUE) >>

SoapCalls ==
    { [op |-> "soap", q |-> Query(Str_POST, <<"s">>, TRUE, h, b[1], b[2])] :
        h \in HeaderMethods, b \in BodyMethods }

ExtractSoapMethod ==
    /\ call.op = "soap"
    /\ ret = NoRet
    /\ ret' = [op |-> "soap",
               soap_method |-> extract_soap_method(call.q.headers, call.q.body),
               found |-> find_mock_service_by_path_and_method(
                             SoapRegistry, HandlerPath(call.q.path), call.q.method,
                             call.q.body, call.q.headers)]
    /\ UNCHANGED <<gateway, call, logdir>>

InitSoap == InitOther /\ call \in SoapCalls /\ ret = NoRet /\ logdir = << >>

SpecSoap == InitSoap /\ [][ExtractSoapMethod]_vars

\* C24: extractMethod never returns a method name that is empty or of
\* length at most 1; with a header-derived name of length at most 1 and no
\* name in the body the result is "no method", and the router keeps the
\* service as its SOAP fallback.
C24_NoShortMethod ==
    (ret # NoRet /\ call.op = "soap") =>
        /\ ret.soap_method # NoStr => Len(ret.soap_method) > 1
        /\ (/\ Len(normalize_method_name(call.q.headers.soap_method)) <= 1
            /\ ~(call.q.body.nonempty
                   /\ normalize_method_name(call.q.body.soap_method) # NoStr))
              => ret.soap_method = NoStr /\ ret.found.service = 1

\* the body yields a name: a body is given and what the scanner finds in
\* it is not empty after normalisation
BodyYieldsName(q) ==
    q.body.nonempty /\ normalize_method_name(q.body.soap_method) # NoStr

\* C24 as amended: a header-derived name of length at most 1 gives way to a
\* name the body yields; when the body yields none, it is returned as the
\* last resort if it is not empty, and only when it is empty too is the
\* result "no method" and the service the router's SOAP fallback.
C24_ShortHeaderNameIsLastResort ==
    (ret # NoRet /\ call.op = "soap") =>
        LET q == call.q
            from_h == normalize_method_name(q.headers.soap_method)
        IN  /\ (Len(from_h) <= 1 /\ BodyYieldsName(q))
                  => ret.soap_method = normalize_method_name(q.body.soap_method)
            /\ (Len(from_h) = 1 /\ ~BodyYieldsName(q))
                  => ret.soap_method = from_h /\ ret.found.service = None
            /\ (from_h = NoStr /\ ~BodyYieldsName(q))
                  => ret.soap_method = NoStr /\ ret.found.service = 1

\* a one-letter name in the headers and a name in the body
C24_Witness ==
    /\ ret # NoRet /\ call.op = "soap"
    /\ Len(normalize_method_name(call.q.headers.soap_method)) = 1
    /\ BodyYieldsName(call.q)
    /\ ret.soap_method = <<"S", "u", "b">>
    /\ ret.found.service = 1

-----------------------------------------------------------------------------
(* Requests side by side, nobody subscribed.  A handler at "processing" is *)
(* inside process_request, suspended in await asyncio.sleep (proxy_delay,  *)
(* static_delay, conditional_delay, a branch's delay) or in await          *)
(* http_client.request; Process is its resumption.  The event loop runs    *)
(* every task that is ready, so every step is fair except the resumption   *)
(* of request 1, whose delay or upstream call may last as long as it likes. *)

NextSuspend ==
    \/ \E r \in Requests : Route(r, HubQueries)
    \/ \E r \in Requests : Process(r, HubResults)
    \/ \E r \in Requests : AfterGlobal(r)
    \/ \E r \in Requests : Finish(r)

SpecSuspend ==
    /\ Init
    /\ [][NextSuspend]_vars
    /\ \A r \in Requests : /\ WF_vars(Route(r, HubQueries))
                           /\ WF_vars(AfterGlobal(r))
                           /\ WF_vars(Finish(r))
    /\ \A r \in Requests \ {1} : WF_vars(Process(r, HubResults))

\* C25: while request 1 is suspended in a configured delay or an upstream
\* call, the request arriving next is served to its end, whether or not
\* request 1 ever resumes: it is routed, processed, logged and answered,
\* unless its own client disconnects before its body has arrived.
C25_SuspendedDoesNotBlock ==
    (req[1].pc = "processing" /\ req[2].pc = "start")
        ~> (req[2].pc \in {"done", "aborted"})

\* request 2 was processed, logged and answered while request 1 is still
\* suspended
C25_Witness ==
    /\ req[1].pc = "processing"
    /\ req[2].pc = "done" /\ req[2].branch = "ok" /\ req[2].resp.status = 200
    /\ \E i \in 1..Len(logfile) : logfile[i].key[1] = 2

-----------------------------------------------------------------------------
(* Strict matches and fallback candidates of the router (SpecHandler)      *)

\* Row i is a strict match of q: an eligible REST service, or an eligible
\* SOAP service that the method name extracted from q names
StrictRow(i, q) ==
    /\ Eligible(services[i], q)
    /\ \/ services[i].service_type = "rest"
       \/ /\ services[i].service_type = "soap"
          /\ q.headers.nonempty
          /\ extract_soap_method(q.headers, q.body) # NoStr
          /\ matches_soap_service(services[i].name,
                                  extract_soap_method(q.headers, q.body))

\* Row i is a fallback candidate of q: an eligible SOAP service while no
\* method name can be extracted from q
FallbackRow(i, q) ==
    /\ Eligible(services[i], q)
    /\ services[i].service_type = "soap"
    /\ q.headers.nonempty
    /\ extract_soap_method(q.headers, q.body) = NoStr

StrictRows(q) == {i \in 1..Len(services) : StrictRow(i, q)}

\* C26: a strict match takes precedence over a SOAP fallback: the router
\* returns the first strict match in iteration order when there is one, a
\* remembered fallback only when there is none, and never a SOAP service
\* whose name the extracted method name does not match.
C26_StrictBeforeFallback ==
    \A r \in Requests :
        LET q == req[r].q
            found == req[r].found
        IN  req[r].pc \notin {"start", "aborted"} =>
              /\ StrictRows(q) # {} =>
                    found.service = services[Minimum(StrictRows(q))].id
              /\ (StrictRows(q) = {} /\ found.service # None) =>
                    \E i \in 1..Len(services) :
                        services[i].id = found.service /\ FallbackRow(i, q)
              /\ \A i \in 1..Len(services) :
                    (services[i].id = found.service) =>
                        StrictRow(i, q) \/ FallbackRow(i, q)

-----------------------------------------------------------------------------
(* The two registries of ConnectionManager under connect and disconnect,   *)
(* while one request is served.                                            *)

\* manager.disconnect(websocket, service_id) for a websocket that is in no
\* registry: one that never connected or was disconnected before.  ret tells
\* whether the call changed a registry.
DisconnectUnregistered(c, service_id) ==
    /\ LoopFree
    /\ ws[c].st \in {"new", "closed"}
    /\ active_connections' = disconnect_active(active_connections, c)
    /\ service_connections' = disconnect_service(service_connections, c, service_id)
    /\ ret' = [op |-> "disconnect", ws |-> c, service_id |-> service_id,
               changed |-> \/ active_connections' # active_connections
                           \/ service_connections' # service_connections]
    /\ UNCHANGED <<services, ws, sendq, received, logfile, disk_ok, now, published, snaps,
                   attempts, send_failed, req, call, logdir>>

NextManager ==
    \/ \E c \in Conns, sid \in Subscriptions : Connect(c, sid)
    \/ \E c \in Conns : Disconnect(c)
    \/ \E c \in Conns, sid \in Subscriptions : DisconnectUnregistered(c, sid)
    \/ SendStep
    \/ Route(1, HubQueries)
    \/ Process(1, HubResults)
    \/ AfterGlobal(1)
    \/ Finish(1)

SpecManager == Init /\ [][NextManager]_vars

\* The registries are consistent: no service has an empty list, every
\* connection of a service list is in the global list, and a disconnected
\* connection is in neither; the last disconnect of an unregistered
\* connection changed nothing.
RegistriesConsistent ==
    /\ \A sid \in DOMAIN service_connections : service_connections[sid] # << >>
    /\ \A sid \in DOMAIN service_connections : \A c \in Conns :
          InList(service_connections[sid], c) => InList(active_connections, c)
    /\ \A c \in Conns : ws[c].st = "closed" =>
          /\ ~InList(active_connections, c)
          /\ \A sid \in DOMAIN service_connections :
                ~InList(service_connections[sid], c)
    /\ ret # NoRet => ~ret.changed

\* The send tasks a step adds to the queue (a publish takes its snapshot)
NewTasks ==
    IF Len(sendq') > Len(sendq) THEN SubSeq(sendq', Len(sendq) + 1, Len(sendq')) ELSE << >>

\* No publish sends to a connection that was disconnected before it started
PublishSkipsDisconnected ==
    \A i \in 1..Len(NewTasks) : ws[NewTasks[i].ws].st # "closed"

\* C28: after any interleaving of connect and disconnect the per-service
\* map has no empty list, every connection under a service id is in the
\* global list, a disconnected connection is in neither registry and no
\* publish starting afterwards sends to it, and disconnecting an
\* unregistered connection changes nothing.
C28_RegistriesConsistent ==
    []RegistriesConsistent /\ [][PublishSkipsDisconnected]_vars

\* connection 1 was disconnected, connection 2 stays under service 1, a
\* disconnect of connection 1 under service 1 was repeated, and a record
\* for service 1 was published to connection 2 only
C28_Witness ==
    /\ ws[1].st = "closed" /\ ws[1].service_id = 1
    /\ ret # NoRet /\ ret.ws = 1 /\ ret.service_id = 1
    /\ 1 \in DOMAIN service_connections /\ service_connections[1] = <<2>>
    /\ \E e \in snaps : e[2] = "service" /\ e[3] = 2
    /\ \A e \in snaps : e[3] # 1

-----------------------------------------------------------------------------
(* The target URL of one request, built as the top-level PROXY strategy    *)
(* builds it and as a proxy branch of a CONDITIONAL service builds it.      *)

\* _process_proxy: self._build_proxy_url(mock_service.proxy_url,
\* mock_service.path, request.url.path, path_params or {}, request.url.query)
proxy_target_url(proxy_url, path, request_path, path_params, query_string) ==
    build_proxy_url(proxy_url, path, request_path, path_params, query_string)

\* _proxy_conditional_request: self._build_proxy_url(proxy_url,
\* request.url.path, request.url.path, path_params, request.url.query); the
\* service's path is not among its arguments
conditional_target_url(proxy_url, path, request_path, path_params, query_string) ==
    build_proxy_url(proxy_url, request_path, request_path, path_params, query_string)

\* str(path_params), the text of a dict of strings: {'a': '7', 'b': 'x'}
\* (no value of the model's paths has a quote or a backslash)
RECURSIVE DictItemsStr(_)
DictItemsStr(path_params) ==
    IF path_params = << >> THEN << >>
    ELSE <<"'">> \o Head(path_params)[1] \o <<"'", ":", " ", "'">> \o Head(path_params)[2]
         \o <<"'">>
         \o (IF Len(path_params) > 1 THEN <<",", " ">> ELSE << >>)
         \o DictItemsStr(Tail(path_params))
DictStr(path_params) == <<"{">> \o DictItemsStr(path_params) \o <<"}">>

\* context after exec of the condition code, without the request data that
\* excluded_vars names: path_params and the variables the code assigned,
\* each with str(value), or NoneValue for the value None
ContextAfter(path_params, assigned) ==
    << <<<<"p", "a", "t", "h", "_", "p", "a", "r", "a", "m", "s">>, DictStr(path_params)>> >> \o assigned

\* extended_params[var_name] = str(var_value): a key that is there keeps
\* its place, a new key goes to the end
SetParam(params, var_name, var_value) ==
    IF \E i \in 1..Len(params) : params[i][1] = var_name
    THEN [i \in 1..Len(params) |->
             IF params[i][1] = var_name THEN <<var_name, var_value>> ELSE params[i]]
    ELSE Append(params, <<var_name, var_value>>)

\* extended_params = path_params.copy(), then every variable of the context
\* whose name does not start with "_" and whose value is not None
RECURSIVE extended_params(_, _)
extended_params(path_params, context) ==
    IF context = << >> THEN path_params
    ELSE LET var_name == Head(context)[1]
             var_value == Head(context)[2]
         IN  extended_params(IF ~StartsWith(var_name, <<"_">>) /\ var_value # NoneValue
                             THEN SetParam(path_params, var_name, var_value)
                             ELSE path_params,
                             Tail(context))

\* what the condition code assigned: nothing, c = 5, a = 9, c = None, _c = 5
AssignedVariables ==
    { << >>, << <<<<"c">>, <<"5">>>> >>, << <<<<"a">>, <<"9">>>> >>,
      << <<<<"c">>, NoneValue>> >>, << <<<<"_", "c">>, <<"5">>>> >> }

TargetProxyUrls ==
    ProxyUrls \cup { <<"h", "/", "{", "_", "c", "}">>,
                     <<"h", "/", "{">> \o <<"p", "a", "t", "h", "_", "p", "a", "r", "a", "m", "s">> \o <<"}">> }

\* A service with path t was selected for the request path p, and the
\* condition code left the context
TargetCalls ==
    { [op |-> "targets", proxy_url |-> x[1], path |-> x[2], request_path |-> x[3],
       path_params |-> extract_parameters(x[2], x[3]).params, query_string |-> x[4],
       context |-> ContextAfter(extract_parameters(x[2], x[3]).params, x[5])] :
         x \in { y \in TargetProxyUrls \X MockPaths \X RequestPaths \X QueryStrings
                        \X AssignedVariables :
                   extract_parameters(y[2], y[3]).matched } }

\* the top-level PROXY strategy gets the router's path_params, the proxy
\* branch of the CONDITIONAL strategy the extended ones
BuildTargetUrls ==
    /\ call.op = "targets"
    /\ ret = NoRet
    /\ ret' = [op |-> "targets",
               proxy |-> proxy_target_url(call.proxy_url, call.path, call.request_path,
                                          call.path_params, call.query_string),
               conditional |-> conditional_target_url(call.proxy_url, call.path,
                                          call.request_path,
                                          extended_params(call.path_params, call.context),
                                          call.query_string)]
    /\ UNCHANGED <<gateway, call, logdir>>

InitTargets == InitOther /\ call \in TargetCalls /\ ret = NoRet /\ logdir = << >>

SpecTargets == InitTargets /\ [][BuildTargetUrls]_vars

\* C29: for the same proxy URL, service path template, request path,
\* params and query string, a proxy branch of a CONDITIONAL service and a
\* top-level PROXY service build the same target URL: the URL of the
\* branch is what the top-level construction gives for the service's
\* template and the params extended with the evaluator's variables.
C29_SameTargetUrl ==
    (ret # NoRet /\ call.op = "targets") =>
        ret.conditional =
            proxy_target_url(call.proxy_url, call.path, call.request_path,
                             extended_params(call.path_params, call.context),
                             call.query_string)

-----------------------------------------------------------------------------
(* One request with subscribers, where process_request may also answer 500 *)
(* itself and where log_request or the construction of the Response may    *)
(* raise, so that the handler's last except branch is reached.             *)

\* process_request caught an error of the strategy:
\* return 500, f"Ошибка сервера: {str(e)}", {}, None
ProcessorError == [status |-> 500, body |-> "error", loggable |-> TRUE, buildable |-> TRUE]

NextCatchAll ==
    \/ \E c \in Conns, sid \in Subscriptions : Connect(c, sid)
    \/ SendStep
    \/ Route(1, HubQueries)
    \/ Process(1, StrategyResults \cup {ProcessorError})
    \/ AfterGlobal(1)
    \/ Finish(1)

SpecCatchAll == Init /\ [][NextCatchAll]_vars

\* The records of request r in the log file
LoggedBy(r) == {i \in 1..Len(logfile) : logfile[i].key[1] = r}

\* C30: the 500 record the last except branch logs after a service was
\* selected carries no service id, so it is sent to global subscribers only
\* and get() filtered on that service does not return it; a 500 answered by
\* the strategy processor is logged with the selected service's id.
C30_CatchAllRecord ==
    \A r \in Requests :
        LET found == req[r].found
            e == req[r].entry
        IN  /\ (found.service # None /\ req[r].branch = "caught"
                   /\ req[r].pc \in {"fanG", "fanS", "done"}) =>
                  /\ e.mock_service_id = None /\ e.response_status = 500
                  /\ \A c \in Conns : FramesFor(c, e.key) # {} => ws[c].service_id = None
                  /\ ~InList(get_logs(logfile, found.service, 0, GetLimit), e)
            /\ (found.service # None /\ req[r].out = ProcessorError
                   /\ req[r].pc \in {"fanG", "fanS", "done"}) =>
                  \A i \in LoggedBy(r) : logfile[i].mock_service_id = found.service

=============================================================================
